---------------------------- MODULE Spec2Model ----------------------------
(***************************************************************************)
(* Model of the odds acquisition and ticket-assembly engine of            *)
(* Telegram-Tickets: telegram_all_tips_ticket.py (HTTP cache, odds parser, *)
(* ticket #1 / ticket #2 assembly) and all_tips_ticket.py (retrying GET,   *)
(* minimum-odd reader, pick builder, ticket builder).                      *)
(* Further parts: the delivery of the tickets (post_to_telegram,           *)
(* airtable_insert_batch), a run of a script from its import to its exit,  *)
(* the pacing of the requests, and the composition and the candidate       *)
(* generation of the assemblies on inputs of their own.                    *)
(*                                                                         *)
(* Prices are integers in hundredths (1.55 is 155).  Python dicts are      *)
(* functions whose DOMAIN is the set of keys; the empty dict is << >>.     *)
(***************************************************************************)
EXTENDS Integers, Sequences, FiniteSets, TLC

VARIABLES
    \* ---- odds parser (SpecNorm)
    out,          \* _collect_odds_table: fixture id -> market -> outcome -> price
    min_out,      \* _min_odd_in_bet results, by bet name: label -> price
    seen,         \* history: the upstream items processed so far
    renorm,       \* the table obtained by feeding `out` back to the parser
    nphase,       \* "feeding" | "reapplied"
    \* ---- all_tips_ticket._get (SpecRetry)
    g_i,          \* the loop index i of "for i in range(RETRY_MAX)"
    g_last_exc,   \* last_exc: NoExc, or the attempt and kind of the caught error
    g_result,     \* "pending" | "returned" | "raised"
    g_raised,     \* the error raised to the caller (NoExc while there is none)
    g_log,        \* history: the upstream's answer to each network call
    g_trace,      \* history: sleeps and network calls in order
    \* ---- telegram_all_tips_ticket._get (SpecCache)
    http_cache,   \* _http_cache: key -> document
    t_count,      \* history: number of _get calls made so far
    t_ok,         \* history: request -> number of successful network calls
    t_first,      \* history: request -> the document and params of its first success
    t_last,       \* history: the last _get call and how it ended
    t_trace,      \* history: the sleeps and network calls of _get, in order
    \* ---- one run of main.py or of all_tips_ticket.py (SpecRun)
    up_fixtures,  \* upstream: the day's fixtures, each with its odds answer
    up_date,      \* upstream: the answer to GET /odds?date=
    pc,           \* position of the script: "start", "t1", "t2", "done", "raised" in
                  \* main.py; "tips_start", "tips_picks", "tips_done", "tips_raised"
    odds_by_date_cache, \* _ODDS_BY_DATE_CACHE: date -> table
    r_log,        \* history: the network requests made, in order
    t1,           \* the result of assemble_ticket1
    t2,           \* the result of assemble_ticket2_allow_all
    tickets,      \* build_tickets_and_reasoning()["tickets"]
    picks,        \* build_picks(), then in the order random.shuffle left
    tickets_text, \* make_tickets(): each ticket as the list of its legs
    \* ---- delivery: post_to_telegram / airtable_insert_batch (SpecDeliver)
    d_prog,       \* "telegram" | "airtable" | "idle"
    d_bot,        \* TELE_BOT is set
    d_chans,      \* the channels posted to
    d_msgs,       \* the messages (records) to deliver
    d_given,      \* history: the messages as given to the call
    d_i,          \* loop position: message index (telegram), chunk offset (airtable)
    d_j,          \* loop position: channel index
    d_log,        \* history: the delivery attempts, in order
    d_out,        \* out: the responses of the successful sends
    d_state,      \* "called" | "sending" | "returned" | "raised"
    \* ---- which fetch client runs (SpecFetch)
    f_client,     \* "all_tips" | "telegram" | "none"
    \* ---- one run of a script from its import to its exit (SpecConfig)
    c_prog,       \* "telegram" | "all_tips" | "none"
    c_env,        \* the environment: which credentials and identifiers are set
    c_pc,         \* "import" | "build" | "deliver" | "exited"
    c_k,          \* requests made by the current stage
    c_provider,   \* history: requests sent to the odds provider
    c_exit,       \* "running" | "aborted" | "finished"
    \* ---- the composition of a ticket from a candidate pool (SpecPool)
    p_prog,       \* "t1" | "t2" | "none": which assembly composes
    p_pool,       \* the candidate pool the tiers left
    p_res,        \* the sorted pool and the ticket returned
    p_pc,         \* "pool" | "composed"
    \* ---- candidate generation for one fixture (SpecPick)
    k_rules,      \* the rule set of the tier
    k_odds,       \* odds_map: the odds table of the fixture
    k_pick,       \* the candidate returned
    k_pc          \* "odds" | "picked"

normVars == <<out, min_out, seen, renorm, nphase>>
retryVars == <<g_i, g_last_exc, g_result, g_raised, g_log, g_trace>>
cacheVars == <<t_count, t_ok, t_first, t_last, t_trace>>
runVars == <<up_fixtures, up_date, pc, odds_by_date_cache, r_log, t1, t2, tickets,
             picks, tickets_text>>

deliverVars == <<d_prog, d_bot, d_chans, d_msgs, d_given, d_i, d_j, d_log, d_out, d_state>>

\* the variables of the parts added to the four above
configVars == <<c_prog, c_env, c_pc, c_k, c_provider, c_exit>>

poolVars == <<p_prog, p_pool, p_res, p_pc>>

pickVars == <<k_rules, k_odds, k_pick, k_pc>>

extVars == <<deliverVars, f_client, configVars, poolVars, pickVars>>

\* what a delivery step leaves alone
exceptDeliver ==
    <<normVars, retryVars, http_cache, cacheVars, runVars, f_client, configVars, poolVars,
      pickVars>>

vars == <<out, min_out, seen, renorm, nphase,
          g_i, g_last_exc, g_result, g_raised, g_log, g_trace,
          http_cache, t_count, t_ok, t_first, t_last, t_trace,
          up_fixtures, up_date, pc, odds_by_date_cache, r_log, t1, t2, tickets,
          picks, tickets_text, extVars>>

----------------------------------------------------------------------------
(* Generic helpers: Python dict and list idioms.                           *)

FoldLeft(Op(_, _), base, s) ==
    LET f[i \in 0..Len(s)] == IF i = 0 THEN base ELSE Op(f[i - 1], s[i])
    IN  f[Len(s)]

\* the element of a one-element set: The({F(x) : x \in {e}}) is F(e) with e
\* evaluated once, as "x = e; ... F(x)" in the code
The(S) == CHOOSE x \in S : TRUE

DictGet(d, k, default) == IF k \in DOMAIN d THEN d[k] ELSE default

DictSet(d, k, v) == [y \in (DOMAIN d) \cup {k} |-> IF y = k THEN v ELSE d[y]]

SetDefault(d, k, v) == IF k \in DOMAIN d THEN d ELSE DictSet(d, k, v)

MaxOf(a, b) == IF a >= b THEN a ELSE b

MinOf(a, b) == IF a <= b THEN a ELSE b

SetMax(S) == CHOOSE x \in S : \A y \in S : y <= x

SetMin(S) == CHOOSE x \in S : \A y \in S : x <= y

----------------------------------------------------------------------------
(* Python str operations, character by character.                          *)

LowerAlpha == "abcdefghijklmnopqrstuvwxyz"
UpperAlpha == "ABCDEFGHIJKLMNOPQRSTUVWXYZ"
DigitChars == "0123456789"

Ch(s, i) == SubSeq(s, i, i)

InChars(c, chars) == \E i \in 1..Len(chars) : Ch(chars, i) = c

IsSpace(c) == c = " "

IsAlpha(c) == InChars(c, LowerAlpha) \/ InChars(c, UpperAlpha)

\* a regex word character (\w)
IsWord(c) == IsAlpha(c) \/ InChars(c, DigitChars) \/ c = "_"

LowerCh(c) ==
    IF InChars(c, UpperAlpha)
    THEN Ch(LowerAlpha, CHOOSE i \in 1..Len(UpperAlpha) : Ch(UpperAlpha, i) = c)
    ELSE c

UpperCh(c) ==
    IF InChars(c, LowerAlpha)
    THEN Ch(UpperAlpha, CHOOSE i \in 1..Len(LowerAlpha) : Ch(LowerAlpha, i) = c)
    ELSE c

\* str.lower()
Lower(s) ==
    LET f[i \in 0..Len(s)] == IF i = 0 THEN "" ELSE f[i - 1] \o LowerCh(Ch(s, i))
    IN  f[Len(s)]

\* str.upper()
Upper(s) ==
    LET f[i \in 0..Len(s)] == IF i = 0 THEN "" ELSE f[i - 1] \o UpperCh(Ch(s, i))
    IN  f[Len(s)]

\* str.title(): a letter is upper-cased after a non-letter, lower-cased after a letter
Title(s) ==
    LET f[i \in 0..Len(s)] ==
            IF i = 0 THEN ""
            ELSE f[i - 1] \o (IF i > 1 /\ IsAlpha(Ch(s, i - 1))
                              THEN LowerCh(Ch(s, i))
                              ELSE UpperCh(Ch(s, i)))
    IN  f[Len(s)]

\* str.strip()
Strip(s) ==
    LET idx == {i \in 1..Len(s) : ~IsSpace(Ch(s, i))}
    IN  IF idx = {} THEN "" ELSE SubSeq(s, SetMin(idx), SetMax(idx))

\* sub in s
Contains(s, sub) ==
    \E i \in 1..(Len(s) - Len(sub) + 1) : SubSeq(s, i, i + Len(sub) - 1) = sub

\* s.replace(old, new), old non-empty: leftmost non-overlapping occurrences
Replace(s, old, new) ==
    LET n == Len(s)
        k == Len(old)
        g[j \in 0..n] ==
            \* g[j] is the replacement of the suffix that starts at n - j + 1
            LET i == n - j + 1 IN
            IF j = 0 THEN ""
            ELSE IF j >= k /\ SubSeq(s, i, i + k - 1) = old
                 THEN new \o g[j - k]
                 ELSE Ch(s, i) \o g[j - 1]
    IN  g[n]

\* re.sub(r"\s+", " ", s)
CollapseWs(s) ==
    LET f[i \in 0..Len(s)] ==
            IF i = 0 THEN ""
            ELSE IF IsSpace(Ch(s, i))
                 THEN (IF i > 1 /\ IsSpace(Ch(s, i - 1)) THEN f[i - 1] ELSE f[i - 1] \o " ")
                 ELSE f[i - 1] \o Ch(s, i)
    IN  f[Len(s)]

\* re.search(r"(?i)\b<word>\b", s) for a word made of letters
MentionsWord(s, word) ==
    LET l == Lower(s)
        k == Len(word)
    IN  \E i \in 1..(Len(l) - k + 1) :
            /\ SubSeq(l, i, i + k - 1) = word
            /\ (i = 1 \/ ~IsWord(Ch(l, i - 1)))
            /\ (i + k > Len(l) \/ ~IsWord(Ch(l, i + k)))

----------------------------------------------------------------------------
(* Odds parser configuration (telegram_all_tips_ticket.py).                *)

FORBIDDEN_SUBSTRS ==
    { "asian", "alternative", "corners", "cards", "booking", "penalties", "penalty",
      "offside", "throw in", "interval", "race to", "period", "quarter",
      "draw no bet", "dnb", "to qualify", "method of victory", "overtime", "extra time",
      "win to nil", "clean sheet", "anytime", "player", "scorer" }

OU_EQUIV ==
    << <<"Over1.5", "Over 1.5">>, <<"Under3.5", "Under 3.5">>, <<"Over2.5", "Over 2.5">> >>

DOC_MARKETS ==
    [ match_winner |-> {"Match Winner", "1X2", "Full Time Result", "Result"},
      double_chance |-> {"Double Chance", "Double chance"},
      btts |-> {"Both Teams To Score", "Both teams to score", "BTTS", "Both Teams Score"},
      ou |-> {"Goals Over/Under", "Over/Under", "Total Goals", "Total",
              "Goals Over Under", "Total Goals Over/Under"},
      ou_1st |-> {"1st Half - Over/Under", "1st Half Goals Over/Under",
                  "First Half - Over/Under", "Over/Under - 1st Half",
                  "First Half Goals", "Goals Over/Under - 1st Half"},
      ttg_home |-> {"Home Team Total Goals", "Home Team Goals",
                    "Home Team - Total Goals", "Home Total Goals"},
      ttg_away |-> {"Away Team Total Goals", "Away Team Goals",
                    "Away Team - Total Goals"},
      ttg_generic |-> {"Team Total Goals", "Total Team Goals", "Team Goals"} ]

\* _is_fulltime_main
is_fulltime_main(name) ==
    LET nl == Lower(name) IN ~(\E b \in FORBIDDEN_SUBSTRS : Contains(nl, b))

\* _norm_ou_value
norm_ou_value(v) ==
    LET ApplyEquiv(s, kv) == Replace(s, kv[1], kv[2])
    IN  CollapseWs(FoldLeft(ApplyEquiv, Title(Strip(v)), OU_EQUIV))

\* _is_over05: re.search(r"(?i)\bover\s*0\.5\b", val)
is_over05(val) ==
    LET l == Lower(val)
        n == Len(l)
        \* the first index at or after j that is not white space
        SkipWs(j) == IF \E m \in j..n : ~IsSpace(Ch(l, m))
                     THEN SetMin({m \in j..n : ~IsSpace(Ch(l, m))})
                     ELSE n + 1
    IN  \E i \in 1..(n - 3) :
            /\ SubSeq(l, i, i + 3) = "over"
            /\ (i = 1 \/ ~IsWord(Ch(l, i - 1)))
            /\ LET j == SkipWs(i + 4) IN
               /\ j + 2 <= n
               /\ SubSeq(l, j, j + 2) = "0.5"
               /\ (j + 3 > n \/ ~IsWord(Ch(l, j + 3)))

\* _mentions_home, _mentions_away
mentions_home(val) == MentionsWord(val, "home")
mentions_away(val) == MentionsWord(val, "away")

\* _try_float: the parsed value when it is positive, otherwise None (0 here).
\* A raw odd is an integer number of hundredths; a value that is not a number
\* or not positive is any integer <= 0.
try_float(x) == IF x > 0 THEN x ELSE 0

----------------------------------------------------------------------------
(* _collect_odds_table.  An item is                                        *)
(*   [fixture |-> id, bookmakers |-> << bookmaker, ... >>]                 *)
(* a bookmaker is [markets |-> << market >>, bets |-> << bet >>], with     *)
(*   market = [name |-> str, outcomes |-> << [name |-> str, price |-> n] >>]*)
(*   bet    = [name |-> str, values   |-> << [value |-> str, odd |-> n] >>] *)

\* a store in which the price processed last replaces the stored one
KeepLast(dst, nm, v) == DictSet(dst, nm, v)

\* dst[nm] = max(dst.get(nm, 0.0), v), and the equivalent
\* "nm not in dst or v > dst[nm]" / "prev is None or v > prev" forms
KeepMax(dst, nm, v) == DictSet(dst, nm, MaxOf(DictGet(dst, nm, 0), v))

\* the loop over bet["values"] of one canonical market: Label gives the
\* canonical outcome of a raw value, or "" when the value is not taken
CollectValues(slot, mkt, values, Label(_)) ==
    LET Step(s, val) ==
            LET nm == Label(val.value)
                v  == try_float(val.odd)
            IN  IF nm # "" /\ v > 0
                THEN DictSet(s, mkt, KeepMax(s[mkt], nm, v))
                ELSE s
    IN  FoldLeft(Step, SetDefault(slot, mkt, << >>), values)

LabelMatchWinner(value) ==
    LET nm == Strip(value) IN
    IF nm \in {"Home", "1"} THEN "Home"
    ELSE IF nm \in {"Away", "2"} THEN "Away"
    ELSE ""

LabelDoubleChance(value) ==
    LET nm == Upper(Replace(value, " ", "")) IN
    IF nm \in {"1X", "X2", "12"} THEN nm ELSE ""

LabelBtts(value) ==
    LET nm == Title(Strip(value)) IN
    IF nm \in {"Yes", "No"} THEN nm ELSE ""

LabelOverUnder(value) ==
    LET nm == norm_ou_value(value) IN
    IF nm \in {"Over 1.5", "Under 3.5", "Over 2.5"} THEN nm ELSE ""

LabelOver05(value) == IF is_over05(value) THEN "Over 0.5" ELSE ""

\* the "ttg_generic" branch: the market is chosen per value
CollectGeneric(slot, values) ==
    LET Step(s, val) ==
            LET vv == Strip(val.value)
                v  == try_float(val.odd)
                Put(mkt) ==
                    LET s1 == SetDefault(s, mkt, << >>) IN
                    IF v > 0 THEN DictSet(s1, mkt, KeepMax(s1[mkt], "Over 0.5", v)) ELSE s1
            IN  IF ~is_over05(vv) THEN s
                ELSE IF mentions_home(vv) THEN Put("Home Team Goals")
                ELSE IF mentions_away(vv) THEN Put("Away Team Goals")
                ELSE s
    IN  FoldLeft(Step, slot, values)

\* one iteration of "for bet in bm.get('bets')" (the older upstream shape)
CollectBet(slot, bet) ==
    LET raw == Strip(bet.name) IN
    IF raw = "" THEN slot
    ELSE IF raw \in DOC_MARKETS.ou_1st
         THEN CollectValues(slot, "1st Half Goals", bet.values, LabelOver05)
    ELSE IF ~is_fulltime_main(raw) THEN slot
    ELSE IF raw \in DOC_MARKETS.match_winner
         THEN CollectValues(slot, "Match Winner", bet.values, LabelMatchWinner)
    ELSE IF raw \in DOC_MARKETS.double_chance
         THEN CollectValues(slot, "Double Chance", bet.values, LabelDoubleChance)
    ELSE IF raw \in DOC_MARKETS.btts
         THEN CollectValues(slot, "Both Teams To Score", bet.values, LabelBtts)
    ELSE IF raw \in DOC_MARKETS.ou
         THEN CollectValues(slot, "Over/Under", bet.values, LabelOverUnder)
    ELSE IF raw \in DOC_MARKETS.ttg_home
         THEN CollectValues(slot, "Home Team Goals", bet.values, LabelOver05)
    ELSE IF raw \in DOC_MARKETS.ttg_away
         THEN CollectValues(slot, "Away Team Goals", bet.values, LabelOver05)
    ELSE IF raw \in DOC_MARKETS.ttg_generic
         THEN CollectGeneric(slot, bet.values)
    ELSE slot

\* one iteration of "for m in bm.get('markets')" (the newer upstream shape)
CollectMarket(slot, m) ==
    LET mkt == Strip(m.name)
        Step(s, oc) ==
            LET name == Strip(oc.name)
                v    == try_float(oc.price)
            IN  IF v > 0 /\ name # ""
                THEN DictSet(s, mkt, KeepMax(s[mkt], name, v))
                ELSE s
    IN  IF mkt = "" THEN slot
        ELSE FoldLeft(Step, SetDefault(slot, mkt, << >>), m.outcomes)

\* one iteration of "for bm in it.get('bookmakers')": markets, then bets
CollectBookmaker(slot, bm) ==
    FoldLeft(CollectBet, FoldLeft(CollectMarket, slot, bm.markets), bm.bets)

\* one iteration of "for it in items": an item without a fixture id is skipped
CollectItem(table, it) ==
    IF it.fixture = 0 THEN table
    ELSE LET tbl == SetDefault(table, it.fixture, << >>)
         IN  DictSet(tbl, it.fixture, FoldLeft(CollectBookmaker, tbl[it.fixture], it.bookmakers))

collect_odds_table(items) == FoldLeft(CollectItem, << >>, items)

----------------------------------------------------------------------------
(* _min_odd_in_bet (all_tips_ticket.py): "Vrati minimalne kvote".          *)

KeepMin(dst, label, odd) ==
    IF label \notin DOMAIN dst \/ odd < dst[label] THEN DictSet(dst, label, odd) ELSE dst

\* the body of "for item in odds_resp" for one item
MinOddItem(acc, item, bet_name) ==
    LET StepValue(a, v) ==
            LET label == Strip(v.value)
                odd   == IF v.odd > 0 THEN v.odd ELSE 0
            IN  IF odd <= 0 THEN a ELSE KeepMin(a, label, odd)
        StepBet(a, bet) ==
            IF bet.name # bet_name THEN a ELSE FoldLeft(StepValue, a, bet.values)
        StepBm(a, bm) == FoldLeft(StepBet, a, bm.bets)
    IN  FoldLeft(StepBm, acc, item.bookmakers)

min_odd_in_bet(odds_resp, bet_name) ==
    LET Step(a, item) == MinOddItem(a, item, bet_name)
    IN  FoldLeft(Step, << >>, odds_resp)

----------------------------------------------------------------------------
(* all_tips_ticket._get: the retrying GET.  Times are in milliseconds.     *)

RETRY_MAX == 4
RATE_LIMIT_RPS == 3

\* what the upstream (or the transport) answers to one network call
Answers == {"200", "429", "404", "500", "timeout", "connect"}

\* httpx raises an httpx.HTTPError for a transport failure, and
\* raise_for_status() raises one (HTTPStatusError) for every 4xx and 5xx
IsHTTPError(a) == a \in {"404", "500", "timeout", "connect"}

Pow2(n) == LET f[k \in 0..n] == IF k = 0 THEN 1 ELSE 2 * f[k - 1] IN f[n]

\* (a client that does not pace its attempts)
NoRateSleep(trace) == trace

\* _sleep_for_rate: time.sleep(1.0 / RATE_LIMIT_RPS) when RATE_LIMIT_RPS > 0
sleep_for_rate(trace) ==
    IF RATE_LIMIT_RPS > 0
    THEN Append(trace, [ev |-> "sleep_rate", ms |-> 1000 \div RATE_LIMIT_RPS])
    ELSE trace

\* time.sleep(min(2 ** i, ceiling))
Backoff(trace, i, ceiling) ==
    Append(trace, [ev |-> "sleep_backoff", ms |-> 1000 * MinOf(Pow2(i), ceiling)])

\* last_exc = None, and nothing raised
NoExc == [attempt |-> 0, kind |-> "None"]

RetryInit ==
    /\ g_i = 0
    /\ g_last_exc = NoExc
    /\ g_result = "pending"
    /\ g_raised = NoExc
    /\ g_log = << >>
    /\ g_trace = << >>

\* one iteration of "for i in range(RETRY_MAX)" with the answer a
GetAttempt(a) ==
    /\ g_result = "pending"
    /\ g_i < RETRY_MAX
    /\ g_log' = Append(g_log, a)
    /\ LET called == Append(sleep_for_rate(g_trace), [ev |-> "call", ms |-> 0]) IN
       IF a = "429"
       THEN \* exponential backoff; continue
            /\ g_trace' = Backoff(called, g_i, 30)
            /\ g_i' = g_i + 1
            /\ UNCHANGED <<g_last_exc, g_result, g_raised>>
       ELSE IF IsHTTPError(a)
       THEN \* except httpx.HTTPError as e: last_exc = e
            /\ g_last_exc' = [attempt |-> g_i + 1, kind |-> a]
            /\ g_trace' = Backoff(called, g_i, 15)
            /\ g_i' = g_i + 1
            /\ UNCHANGED <<g_result, g_raised>>
       ELSE \* return r.json()
            /\ g_result' = "returned"
            /\ g_trace' = called
            /\ UNCHANGED <<g_i, g_last_exc, g_raised>>
    /\ UNCHANGED <<normVars, http_cache, cacheVars, runVars, extVars>>

\* after the loop: raise last_exc or RuntimeError("GET failed")
GetExhausted ==
    /\ g_result = "pending"
    /\ g_i = RETRY_MAX
    /\ g_result' = "raised"
    /\ g_raised' = IF g_last_exc # NoExc THEN g_last_exc
                   ELSE [attempt |-> 0, kind |-> "RuntimeError"]
    /\ UNCHANGED <<g_i, g_last_exc, g_log, g_trace>>
    /\ UNCHANGED <<normVars, http_cache, cacheVars, runVars, extVars>>

RetryNext == (\E a \in Answers : GetAttempt(a)) \/ GetExhausted

----------------------------------------------------------------------------
(* telegram_all_tips_ticket._get: the cached GET.                          *)

\* how many _get calls one behaviour makes
MaxGets == 3

GetPaths == {"/odds", "/fixtures"}

\* params dicts, as the sequence of their (key, value) pairs in insertion order
GetParams ==
    { << <<"fixture", "1">> >>,
      << <<"date", "d">>, <<"fixture", "1">> >>,
      << <<"fixture", "1">>, <<"date", "d">> >> }

\* the documents the upstream may answer with
Docs == {"doc_a", "doc_b"}

\* a < b for strings of lower-case letters, as Python orders dict keys
StrLess(a, b) ==
    LET Rank(c) == CHOOSE i \in 1..Len(LowerAlpha) : Ch(LowerAlpha, i) = c
        n == MinOf(Len(a), Len(b))
        diff == {i \in 1..n : Ch(a, i) # Ch(b, i)}
    IN  IF diff = {} THEN Len(a) < Len(b)
        ELSE Rank(Ch(a, SetMin(diff))) < Rank(Ch(b, SetMin(diff)))

\* the pairs of a params dict ordered by key (json.dumps(..., sort_keys=True))
UnsortedKeys(params) == params

SortKeys(params) ==
    LET Insert(sorted, kv) ==
            LET before == SelectSeq(sorted, LAMBDA x : StrLess(x[1], kv[1]))
                after  == SelectSeq(sorted, LAMBDA x : ~StrLess(x[1], kv[1]))
            IN  before \o <<kv>> \o after
    IN  FoldLeft(Insert, << >>, params)

\* key = f"GET::{path}::{json.dumps(params, sort_keys=True)}"
CacheKey(path, params) == <<"GET", path, SortKeys(params)>>

\* the request itself: the path and the dict, whatever the insertion order
Request(path, params) == <<path, {params[i] : i \in 1..Len(params)}>>

\* QPS_DELAY = 0.35 s, in milliseconds
QPS_DELAY == 350

\* random.uniform(0.0, 0.08), in milliseconds: the ends of the interval
Jitter == {0, 80}

\* _sleep(): time.sleep(QPS_DELAY + random.uniform(0.0, 0.08))
tg_sleep(trace, jitter) == Append(trace, [ev |-> "sleep_rate", ms |-> QPS_DELAY + jitter])

CacheInit ==
    /\ t_count = 0
    /\ t_ok = << >>
    /\ t_first = << >>
    /\ t_last = [req |-> "None", params |-> << >>, net |-> FALSE, prior |-> FALSE,
                 ok |-> FALSE, doc |-> "None"]
    /\ t_trace = << >>

\* _get(path, params), the upstream answering a (with document d) if asked
TGet(path, params, a, d) ==
    LET key == CacheKey(path, params)
        req == Request(path, params)
        prior == DictGet(t_ok, req, 0) > 0
    IN
    /\ t_count < MaxGets
    /\ t_count' = t_count + 1
    /\ IF key \in DOMAIN http_cache
       THEN \* served from the cache
            /\ t_last' = [req |-> req, params |-> params, net |-> FALSE, prior |-> prior,
                          ok |-> TRUE, doc |-> http_cache[key]]
            /\ UNCHANGED <<http_cache, t_ok, t_first, t_trace>>
       ELSE \* _sleep(), then c.get()
            /\ \E jitter \in Jitter :
                   t_trace' = Append(tg_sleep(t_trace, jitter), [ev |-> "call", ms |-> 0])
            /\ IF a = "200"
               THEN \* data = r.json(); _http_cache[key] = data
                    /\ http_cache' = DictSet(http_cache, key, d)
                    /\ t_ok' = DictSet(t_ok, req, DictGet(t_ok, req, 0) + 1)
                    /\ t_first' = SetDefault(t_first, req, [doc |-> d, params |-> params])
                    /\ t_last' = [req |-> req, params |-> params, net |-> TRUE,
                                  prior |-> prior, ok |-> TRUE, doc |-> d]
               ELSE \* c.get() or raise_for_status() raises: nothing is cached
                    /\ t_last' = [req |-> req, params |-> params, net |-> TRUE,
                                  prior |-> prior, ok |-> FALSE, doc |-> "None"]
                    /\ UNCHANGED <<http_cache, t_ok, t_first>>
    /\ UNCHANGED <<normVars, retryVars, runVars, extVars>>

CacheNext ==
    \E path \in GetPaths, params \in GetParams, a \in {"200", "404", "timeout"}, d \in Docs :
        TGet(path, params, a, d)

----------------------------------------------------------------------------
(* Exact arithmetic on cumulative prices: a total is a reduced fraction.    *)

RECURSIVE GCD(_, _)
GCD(a, b) == IF b = 0 THEN a ELSE GCD(b, a % b)

\* the price p (in hundredths) as a fraction
Rat(p) == [num |-> p \div GCD(p, 100), den |-> 100 \div GCD(p, 100)]

RatOne == [num |-> 1, den |-> 1]

\* total * odd
RatMul(r, p) ==
    LET q  == Rat(p)
        g1 == GCD(r.num, q.den)
        g2 == GCD(q.num, r.den)
    IN  [num |-> (r.num \div g1) * (q.num \div g2), den |-> (r.den \div g2) * (q.den \div g1)]

\* total >= target, the target in hundredths
RatGE(r, target) == r.num * Rat(target).den >= Rat(target).num * r.den

\* _product of the odds of a list of legs
product(legs) ==
    LET Step(r, leg) == RatMul(r, leg.odd) IN FoldLeft(Step, RatOne, legs)

----------------------------------------------------------------------------
(* telegram_all_tips_ticket.py: configuration of the assembly.             *)

LEGS_MIN == 2
LEGS_MAX == 6
MAX_MATCHES == 180
MIN_T2_TOTAL == 185
\* the target of ticket #1, "total >= 2.0"
T1_TARGET == 200

SKIP_STATUS == {"FT", "AET", "PEN", "PST", "CANC", "ABD", "AWD", "WO", "SUSP", "INT"}

\* league ids of ALLOW_LIST_STATIC that the model's fixtures use
ALLOW_IDS == {39, 140}

\* the dict MARKET_BANDS in insertion order
MARKET_BANDS ==
    << [mkt |-> "Double Chance", name |-> "1X", lo |-> 120, hi |-> 145],
       [mkt |-> "Double Chance", name |-> "X2", lo |-> 120, hi |-> 145],
       [mkt |-> "Over/Under", name |-> "Over 1.5", lo |-> 120, hi |-> 155],
       [mkt |-> "Over/Under", name |-> "Under 3.5", lo |-> 120, hi |-> 160],
       [mkt |-> "Over/Under", name |-> "Over 2.5", lo |-> 160, hi |-> 220],
       [mkt |-> "Both Teams To Score", name |-> "Yes", lo |-> 155, hi |-> 205],
       [mkt |-> "Match Winner", name |-> "Home", lo |-> 135, hi |-> 180],
       [mkt |-> "Match Winner", name |-> "Away", lo |-> 140, hi |-> 190] >>

\* k: (max(1.10, lo - 0.05), hi + 0.25)
RELAXED_BANDS ==
    [i \in 1..Len(MARKET_BANDS) |->
        [mkt |-> MARKET_BANDS[i].mkt, name |-> MARKET_BANDS[i].name,
         lo |-> MaxOf(110, MARKET_BANDS[i].lo - 5), hi |-> MARKET_BANDS[i].hi + 25]]

ALLOW_ALL_CAPS_HARD ==
    << [mkt |-> "1st Half Goals", name |-> "Over 0.5", cap |-> 135],
       [mkt |-> "Home Team Goals", name |-> "Over 0.5", cap |-> 120],
       [mkt |-> "Away Team Goals", name |-> "Over 0.5", cap |-> 125] >>

ALLOW_ALL_CAPS_RELAX ==
    << [mkt |-> "1st Half Goals", name |-> "Over 0.5", cap |-> 140],
       [mkt |-> "Home Team Goals", name |-> "Over 0.5", cap |-> 125],
       [mkt |-> "Away Team Goals", name |-> "Over 0.5", cap |-> 130] >>

\* all_tips_ticket.py: prices in hundredths
TARGET_TOTAL_ODDS == 300

MIN_SINGLE_ODD == 101

HOME_ODD_MAX == 145

MAX_TICKETS == 8

SKIP == {"FT", "AET", "PEN", "CANC", "ABD", "WO", "PST", "SUSP", "1H", "2H", "HT", "LIVE",
         "ET", "BT"}

----------------------------------------------------------------------------
(* The upstream of one run: bounded inputs.                                *)

\* how many fixtures the day has at most
MaxFixtures == 3

\* and for a run of all_tips_ticket.py, whose shuffle is enumerated
MaxTipFixtures == 2

\* the bets one bookmaker quotes for a fixture, by answer id
RunBets ==
    [ dc_first |->
        << [name |-> "Double Chance",
            values |-> << [value |-> "1X", odd |-> 130], [value |-> "X2", odd |-> 160] >>],
           [name |-> "First Half Goals", values |-> << [value |-> "Over 0.5", odd |-> 130] >>] >>,
      dc_wide |->
        << [name |-> "Double Chance",
            values |-> << [value |-> "1X", odd |-> 150], [value |-> "X2", odd |-> 250] >>] >>,
      mw_dc |->
        << [name |-> "Match Winner",
            values |-> << [value |-> "Home", odd |-> 140], [value |-> "Away", odd |-> 300] >>],
           [name |-> "Double Chance",
            values |-> << [value |-> "1X", odd |-> 120], [value |-> "X2", odd |-> 180] >>] >>,
      goals |->
        << [name |-> "Goals Over/Under", values |-> << [value |-> "Over 2.5", odd |-> 180] >>],
           [name |-> "Home Team Total Goals",
            values |-> << [value |-> "Over 0.5", odd |-> 120] >>] >> ]

\* an odds answer: the id of a payload, "empty" (no items) or "error" (a 4xx)
OddsAnswers == (DOMAIN RunBets) \cup {"empty", "error"}

LeagueIds == {39, 999}

\* the response items of GET /odds?fixture=fid for the answer a
FixtureItems(fid, a) ==
    IF a \in DOMAIN RunBets
    THEN << [fixture |-> fid, bookmakers |-> << [markets |-> << >>, bets |-> RunBets[a]] >>] >>
    ELSE << >>

\* the GET /odds?date= feed: "error", or items for the fixtures with an odd id
DateAnswers == {"error", "feed"}

DateItems(a) ==
    LET odd == SelectSeq([i \in 1..Len(up_fixtures) |-> i], LAMBDA i : i % 2 = 1)
    IN  IF a = "feed"
        THEN [k \in 1..Len(odd) |-> FixtureItems(odd[k], "dc_first")[1]]
        ELSE << >>

\* the parser applied to the payloads, computed once
ParsedFixtureOdds ==
    [fid \in 1..(MaxFixtures + 1), a \in DOMAIN RunBets |->
        collect_odds_table(FixtureItems(fid, a))]

ParsedOddFeed == collect_odds_table(FixtureItems(1, "dc_first"))[1]

----------------------------------------------------------------------------
(* telegram_all_tips_ticket.py: fetching.  The state of the process that    *)
(* the functions read and write is threaded as                             *)
(*   io = [cache, date_cache, log, raised]                                 *)

\* key = f"GET::{path}::{json.dumps(params, sort_keys=True)}"; a request that
\* is not cached goes to the network and is cached when it succeeds
tg_get(io, path, params, answer) ==
    LET key == CacheKey(path, params) IN
    IF key \in DOMAIN io.cache
    THEN [io |-> io, data |-> io.cache[key]]
    ELSE LET logged == Append(io.log, [path |-> path, params |-> params,
                                       ok |-> answer # "error"])
         IN  IF answer = "error"
             THEN [io |-> [io EXCEPT !.log = logged, !.raised = TRUE], data |-> "None"]
             ELSE [io |-> [io EXCEPT !.log = logged,
                                     !.cache = DictSet(io.cache, key, answer)],
                   data |-> answer]

\* _odds_by_date, after data = _get("/odds", {"date": date_str}) gave r
DateTable(io, date_str, items) ==
    [io |-> [io EXCEPT !.date_cache =
                 DictSet(io.date_cache, date_str,
                         [fid \in {items[k].fixture : k \in 1..Len(items)} |-> ParsedOddFeed])],
     table |-> [fid \in {items[k].fixture : k \in 1..Len(items)} |-> ParsedOddFeed]]

DateFetched(r, date_str) ==
    IF r.io.raised THEN [io |-> r.io, table |-> << >>]
    ELSE DateTable(r.io, date_str, DateItems(r.data))

\* _odds_by_date
odds_by_date(io, date_str) ==
    IF date_str \in DOMAIN io.date_cache
    THEN [io |-> io, table |-> io.date_cache[date_str]]
    ELSE The({DateFetched(r, date_str) :
                r \in {tg_get(io, "/odds", << <<"date", date_str>> >>, up_date)}})

\* (a lookup that goes to the table of the date whatever the fixture gave)
AlwaysByDate(r, fid, date_hint) ==
    IF r.io.raised THEN [io |-> r.io, m |-> << >>]
    ELSE The({[io |-> d.io, m |-> DictGet(d.table, fid, << >>)] :
                d \in {odds_by_date(r.io, date_hint)}})

\* odds_by_fixture, after data = _get("/odds", {"fixture": fid}) gave r
FixtureFetched(r, fid, date_hint) ==
    IF r.io.raised THEN [io |-> r.io, m |-> << >>]
    ELSE IF FixtureItems(fid, r.data) # << >>
         THEN [io |-> r.io, m |-> DictGet(ParsedFixtureOdds[fid, r.data], fid, << >>)]
    ELSE IF date_hint # 0
         THEN The({[io |-> d.io, m |-> DictGet(d.table, fid, << >>)] :
                     d \in {odds_by_date(r.io, date_hint)}})
    ELSE [io |-> r.io, m |-> << >>]

\* odds_by_fixture
odds_by_fixture(io, fid, date_hint) ==
    The({FixtureFetched(r, fid, date_hint) :
           r \in {tg_get(io, "/odds", << <<"fixture", fid>> >>, up_fixtures[fid].odds)}})

\* fixtures_by_date: the fixtures whose status is not skipped, MAX_MATCHES at most
fixtures_by_date(io, date_str) ==
    LET r == tg_get(io, "/fixtures", << <<"date", date_str>> >>, "fixtures")
        Step(acc, f) ==
            IF Len(acc) >= MAX_MATCHES \/ f.status \in SKIP_STATUS THEN acc
            ELSE Append(acc, f)
    IN  [io |-> r.io, fixtures |-> FoldLeft(Step, << >>, up_fixtures)]

----------------------------------------------------------------------------
(* telegram_all_tips_ticket.py: candidate generation and assembly.         *)

\* a pick that is None
NoPick == [mkt |-> "", name |-> "", odd |-> 0]

\* (a band that does not hold its ends)
PickInOpenBand(odds_map, mkt, name, lo, hi) ==
    LET v == DictGet(DictGet(odds_map, mkt, << >>), name, 0) IN
    IF v # 0 /\ lo < v /\ v < hi THEN [mkt |-> mkt, name |-> name, odd |-> v] ELSE NoPick

\* _pick_in_band
pick_in_band(odds_map, mkt, name, lo, hi) ==
    LET v == DictGet(DictGet(odds_map, mkt, << >>), name, 0) IN
    IF v = 0 THEN NoPick
    ELSE IF lo <= v /\ v <= hi THEN [mkt |-> mkt, name |-> name, odd |-> v]
    ELSE NoPick

\* _best_from_bands: the first highest-priced pick, in the order of the dict
best_from_bands(odds_map, bands) ==
    LET Step(best, b) ==
            LET p == pick_in_band(odds_map, b.mkt, b.name, b.lo, b.hi)
            IN  IF p # NoPick /\ p.odd > best.odd THEN p ELSE best
    IN  FoldLeft(Step, NoPick, bands)

\* _best_from_caps
best_from_caps(odds_map, caps) ==
    LET Step(best, c) ==
            LET v == DictGet(DictGet(odds_map, c.mkt, << >>), c.name, 0)
            IN  IF v # 0 /\ v <= c.cap /\ v > best.odd
                THEN [mkt |-> c.mkt, name |-> c.name, odd |-> v]
                ELSE best
    IN  FoldLeft(Step, NoPick, caps)

\* _ticket_line: the fields of a leg that the assembly reads
ticket_line(f, pick) ==
    [fid |-> f.fid, market |-> pick.mkt, pick_name |-> pick.name, odd |-> pick.odd,
     league_id |-> f.league]

\* the selector of a rule set: _best_from_bands for bands, _best_from_caps
\* for caps
BestOf(rules, odds_map) ==
    IF rules.kind = "bands" THEN best_from_bands(odds_map, rules.set)
    ELSE best_from_caps(odds_map, rules.set)

PRIMARY == [kind |-> "bands", set |-> MARKET_BANDS]

RELAXED == [kind |-> "bands", set |-> RELAXED_BANDS]

HARD_CAPS == [kind |-> "caps", set |-> ALLOW_ALL_CAPS_HARD]

RELAX_CAPS == [kind |-> "caps", set |-> ALLOW_ALL_CAPS_RELAX]

\* pool.append(_ticket_line(f, pick)) when the fixture has a pick
AddCandidate(a, f, r, pick) ==
    [a EXCEPT !.io = r.io,
              !.pool = IF ~r.io.raised /\ pick # NoPick
                       THEN Append(a.pool, ticket_line(f, pick))
                       ELSE a.pool]

ScanOne(a, f, r, rules) == AddCandidate(a, f, r, BestOf(rules, r.m))

\* one "for f in ...: odds = odds_by_fixture(...); pick = ...; pool.append(...)"
\* loop under a rule set.  An exception ends the scan.
ScanFixtures(acc, fxs, date_str, rules) ==
    LET Step(a, f) ==
            IF a.io.raised THEN a
            ELSE The({ScanOne(a, f, r, rules) :
                        r \in {odds_by_fixture(a.io, f.fid, date_str)}})
    IN  FoldLeft(Step, acc, fxs)

\* sorted(pool, key=lambda L: L["odd"]) and with reverse=True: a stable sort
SortedAsc(pool) ==
    LET Insert(sorted, leg) ==
            SelectSeq(sorted, LAMBDA x : x.odd <= leg.odd) \o <<leg>>
                \o SelectSeq(sorted, LAMBDA x : x.odd > leg.odd)
    IN  FoldLeft(Insert, << >>, pool)

\* (a pool left in the order of the fixtures)
Unsorted(pool) == pool

SortedDesc(pool) ==
    LET Insert(sorted, leg) ==
            SelectSeq(sorted, LAMBDA x : x.odd >= leg.odd) \o <<leg>>
                \o SelectSeq(sorted, LAMBDA x : x.odd < leg.odd)
    IN  FoldLeft(Insert, << >>, pool)

\* (a loop that takes legs up to LEGS_MAX without looking at the total)
GreedyAll(pool, target) ==
    [ticket |-> SubSeq(pool, 1, MinOf(Len(pool), LEGS_MAX)),
     total |-> product(SubSeq(pool, 1, MinOf(Len(pool), LEGS_MAX))),
     stop |-> TRUE]

\* the greedy loop of both assemblies: take legs in order until LEGS_MAX legs
\* are held, stopping once LEGS_MIN legs reach the target
Greedy(pool, target) ==
    LET Step(a, leg) ==
            IF a.stop \/ Len(a.ticket) >= LEGS_MAX THEN [a EXCEPT !.stop = TRUE]
            ELSE LET tk  == Append(a.ticket, leg)
                     tot == RatMul(a.total, leg.odd)
                 IN  [ticket |-> tk, total |-> tot,
                      stop |-> Len(tk) >= LEGS_MIN /\ RatGE(tot, target)]
    IN  FoldLeft(Step, [ticket |-> << >>, total |-> RatOne, stop |-> FALSE], pool)

InSeq(x, s) == \E i \in 1..Len(s) : s[i] = x

EmptyTicket == [legs |-> << >>, total |-> RatOne]

\* the "if len(ticket) < LEGS_MIN: return no legs" test of assemble_ticket1
T1Accepts(ticket, total) == Len(ticket) >= LEGS_MIN

\* history: tier n was run, on the pool the tiers before it had left
TierRun(n, pool) == [tier |-> n, before |-> Len(pool)]

\* a further tier of an assembly: run when no exception was raised and the
\* test of the pool asks for it
Tier(s, wanted, n, fxs, date_str, rules) ==
    IF ~s.io.raised /\ wanted
    THEN ScanFixtures([s EXCEPT !.tiers = Append(s.tiers, TierRun(n, s.pool))],
                      fxs, date_str, rules)
    ELSE s

\* allow_fixtures = [f for f in fixtures if league id in ALLOW_IDS]
AllowFixtures(fixtures) == SelectSeq(fixtures, LAMBDA f : f.league \in ALLOW_IDS)

\* [f for f in fixtures if f not in allow_fixtures]
OtherFixtures(fixtures) ==
    SelectSeq(fixtures, LAMBDA f : ~InSeq(f, AllowFixtures(fixtures)))

\* 1) allowed leagues, MARKET_BANDS
T1Tier1(fx, date_str) ==
    ScanFixtures([io |-> fx.io, pool |-> << >>, tiers |-> <<TierRun(1, << >>)>>,
                  fixtures |-> fx.fixtures],
                 AllowFixtures(fx.fixtures), date_str, PRIMARY)

\* 2) allowed leagues, RELAXED_BANDS
T1Tier2(s, date_str) ==
    Tier(s, Len(s.pool) < LEGS_MIN, 2, AllowFixtures(s.fixtures), date_str, RELAXED)

\* 3) the other leagues, MARKET_BANDS
T1Tier3(s, date_str) ==
    Tier(s, Len(s.pool) < LEGS_MIN, 3, OtherFixtures(s.fixtures), date_str, PRIMARY)

\* 4) all leagues, RELAXED_BANDS
T1Tier4(s, date_str) ==
    Tier(s, Len(s.pool) < LEGS_MIN, 4, s.fixtures, date_str, RELAXED)

\* what an assembly returns: the ticket, with the pool and the tiers run
Assembled(s, pool, g, dropped) ==
    [io |-> s.io, pool |-> pool, tiers |-> s.tiers,
     ticket |-> IF s.io.raised \/ dropped THEN EmptyTicket
                ELSE [legs |-> g.ticket, total |-> g.total]]

T1Greedy(s, pool, g) == Assembled(s, pool, g, ~T1Accepts(g.ticket, g.total))

T1Sorted(s, pool) == The({T1Greedy(s, pool, g) : g \in {Greedy(pool, T1_TARGET)}})

\* pool.sort(key=odd, reverse=True)
T1Pool(s) == The({T1Sorted(s, pool) : pool \in {SortedDesc(s.pool)}})

\* assemble_ticket1
assemble_ticket1(io, date_str) ==
    The({T1Pool(s4) :
           s4 \in {T1Tier4(s3, date_str) :
           s3 \in {T1Tier3(s2, date_str) :
           s2 \in {T1Tier2(s1, date_str) :
           s1 \in {T1Tier1(fx, date_str) :
           fx \in {fixtures_by_date(io, date_str)}}}}}})

\* T2, the hard caps on all fixtures
T2Tier1(fx, date_str) ==
    ScanFixtures([io |-> fx.io, pool |-> << >>, tiers |-> <<TierRun(1, << >>)>>,
                  fixtures |-> fx.fixtures],
                 fx.fixtures, date_str, HARD_CAPS)

\* "if not pool": the relaxed caps
T2Tier2(s, date_str) == Tier(s, s.pool = << >>, 2, s.fixtures, date_str, RELAX_CAPS)

\* total < MIN_T2_TOTAL or len(ticket) < LEGS_MIN
Short(a) == ~RatGE(a.total, MIN_T2_TOTAL) \/ Len(a.ticket) < LEGS_MIN

\* the second pass of assemble_ticket2_allow_all, over sorted(pool, reverse=True)
Corrective(g, pool) ==
    LET Step(a, leg) ==
            IF a.stop THEN a
            ELSE IF InSeq(leg, a.ticket) THEN a
            ELSE IF Len(a.ticket) >= LEGS_MAX THEN [a EXCEPT !.stop = TRUE]
            ELSE [ticket |-> Append(a.ticket, leg),
                  total |-> RatMul(a.total, leg.odd),
                  stop |-> RatGE(RatMul(a.total, leg.odd), MIN_T2_TOTAL)
                               /\ Len(a.ticket) + 1 >= LEGS_MIN]
    IN  IF Short(g) THEN FoldLeft(Step, [g EXCEPT !.stop = FALSE], SortedDesc(pool))
        ELSE g

T2Corrected(s, pool, g2) == Assembled(s, pool, g2, pool = << >> \/ Short(g2))

T2Sorted(s, pool) ==
    The({T2Corrected(s, pool, g2) :
           g2 \in {Corrective(g, pool) : g \in {Greedy(pool, MIN_T2_TOTAL)}}})

\* pool = sorted(pool, key=odd)
T2Pool(s) == The({T2Sorted(s, pool) : pool \in {SortedAsc(s.pool)}})

\* assemble_ticket2_allow_all
assemble_ticket2_allow_all(io, date_str) ==
    The({T2Pool(s2) :
           s2 \in {T2Tier2(s1, date_str) :
           s1 \in {T2Tier1(fx, date_str) :
           fx \in {fixtures_by_date(io, date_str)}}}})

----------------------------------------------------------------------------
(* SpecRun: one run of build_tickets_and_reasoning.                        *)

RunDates == {20251103}

\* what a fixture of the day can be: not started, in an allowed league or not,
\* with one of the payloads; in an allowed league with no odds or a failing
\* odds request; or finished
FixtureProfiles ==
    [league : LeagueIds, status : {"NS"}, odds : DOMAIN RunBets]
        \cup [league : {39}, status : {"NS"}, odds : {"empty", "error"}]
        \cup {[league |-> 39, status |-> "FT", odds |-> "dc_first"]}

\* the fixture lists of a day: fixture i has id i
Fixtures ==
    UNION {{[i \in 1..n |-> [fid |-> i, league |-> c[i].league, status |-> c[i].status,
                             odds |-> c[i].odds]] : c \in [1..n -> FixtureProfiles]} :
           n \in 0..MaxFixtures}

NoTicketYet == [legs |-> << >>, total |-> RatOne, pool |-> << >>, tiers |-> << >>]

NoRun ==
    /\ up_fixtures = << >>
    /\ up_date = "error"
    /\ pc = "idle"
    /\ odds_by_date_cache = << >>
    /\ r_log = << >>
    /\ t1 = NoTicketYet
    /\ t2 = NoTicketYet
    /\ tickets = << >>
    /\ picks = << >>
    /\ tickets_text = << >>

\* the fixture lists of a day for all_tips_ticket.py
TipFixtures == {fx \in Fixtures : Len(fx) <= MaxTipFixtures}

\* a run of main.py (build_tickets_and_reasoning) or of all_tips_ticket.py (run)
RunInit ==
    /\ \/ pc = "start" /\ up_fixtures \in Fixtures /\ up_date \in DateAnswers
       \/ pc = "tips_start" /\ up_fixtures \in TipFixtures /\ up_date = "error"
    /\ http_cache = << >>
    /\ odds_by_date_cache = << >>
    /\ r_log = << >>
    /\ t1 = NoTicketYet
    /\ t2 = NoTicketYet
    /\ tickets = << >>
    /\ picks = << >>
    /\ tickets_text = << >>

IoNow == [cache |-> http_cache, date_cache |-> odds_by_date_cache, log |-> r_log,
          raised |-> FALSE]

\* what a call of an assembly leaves behind: the caches, the request log, and
\* whether it raised
Returned(r, next_pc) ==
    /\ http_cache' = r.io.cache
    /\ odds_by_date_cache' = r.io.date_cache
    /\ r_log' = r.io.log
    /\ pc' = IF r.io.raised THEN "raised" ELSE next_pc

TicketOf(r) == r.ticket @@ [pool |-> r.pool, tiers |-> r.tiers]

T1Returned(r) == Returned(r, "t1") /\ t1' = TicketOf(r)

T2Returned(r) == Returned(r, "t2") /\ t2' = TicketOf(r)

\* t1 = assemble_ticket1(date_str); an exception ends the run
AssembleT1(date_str) ==
    /\ pc = "start"
    /\ \E r \in {assemble_ticket1(IoNow, date_str)} : T1Returned(r)
    /\ UNCHANGED <<up_fixtures, up_date, t2, tickets, picks, tickets_text>>
    /\ UNCHANGED <<normVars, retryVars, cacheVars, extVars>>

\* t2 = assemble_ticket2_allow_all(date_str)
AssembleT2(date_str) ==
    /\ pc = "t1"
    /\ \E r \in {assemble_ticket2_allow_all(IoNow, date_str)} : T2Returned(r)
    /\ UNCHANGED <<up_fixtures, up_date, t1, tickets, picks, tickets_text>>
    /\ UNCHANGED <<normVars, retryVars, cacheVars, extVars>>

\* tickets = [t for t in (t1, t2) if t.get("legs")]
Emit ==
    /\ pc = "t2"
    /\ tickets' = SelectSeq(<<[legs |-> t1.legs, total |-> t1.total, no |-> 1],
                              [legs |-> t2.legs, total |-> t2.total, no |-> 2]>>,
                            LAMBDA t : t.legs # << >>)
    /\ pc' = "done"
    /\ UNCHANGED <<up_fixtures, up_date, http_cache, odds_by_date_cache, r_log, t1, t2,
                   picks, tickets_text>>
    /\ UNCHANGED <<normVars, retryVars, cacheVars, extVars>>

----------------------------------------------------------------------------
(* all_tips_ticket.py: build_picks and make_tickets.                       *)

\* fetch_odds(fid): _get("/odds", {"fixture": fid}), no cache.  An "error"
\* answer is an HTTP error on every attempt, so that _get raises.
fetch_odds(io, fid, answer) ==
    LET logged == Append(io.log, [path |-> "/odds", params |-> << <<"fixture", fid>> >>,
                                  ok |-> answer # "error"])
    IN  IF answer = "error"
        THEN [io |-> [io EXCEPT !.log = logged, !.raised = TRUE], resp |-> << >>]
        ELSE [io |-> [io EXCEPT !.log = logged], resp |-> FixtureItems(fid, answer)]

\* "a or b" of two dict.get results, 0 for None
OrElse(d, k1, k2) == IF DictGet(d, k1, 0) # 0 THEN d[k1] ELSE DictGet(d, k2, 0)

\* 1) Double Chance => 1X, only when 1X < X2
DcRule(f, odd_1x, odd_x2) ==
    IF odd_1x # 0 /\ odd_x2 # 0 /\ odd_1x < odd_x2 /\ odd_1x >= MIN_SINGLE_ODD
    THEN << [fid |-> f.fid, market |-> "Double Chance", value |-> "1X", odd |-> odd_1x] >>
    ELSE << >>

DcPick(f, dc) == DcRule(f, OrElse(dc, "1X", "Home/Draw"), OrElse(dc, "X2", "Draw/Away"))

\* 2) 1X2 => Home when it is below Away and strictly below HOME_ODD_MAX
HomeRule(f, home, away) ==
    IF home # 0 /\ away # 0 /\ home < away /\ home < HOME_ODD_MAX /\ home >= MIN_SINGLE_ODD
    THEN << [fid |-> f.fid, market |-> "1X2", value |-> "Home", odd |-> home] >>
    ELSE << >>

HomePick(f, m1x2) == HomeRule(f, OrElse(m1x2, "Home", "1"), OrElse(m1x2, "Away", "2"))

\* "a or b" of two dicts: the first when it is not empty
FirstNonEmpty(a, b) == IF a # << >> THEN a ELSE b

\* the body of the loop of build_picks for one fixture with odds
PicksOf(f, odds_resp) ==
    DcPick(f, min_odd_in_bet(odds_resp, "Double Chance"))
        \o HomePick(f, FirstNonEmpty(min_odd_in_bet(odds_resp, "Match Winner"),
                                     min_odd_in_bet(odds_resp, "1X2")))

\* picks of one fixture, given the answer r of fetch_odds
PickStep(a, f, r) ==
    IF r.io.raised \/ r.resp = << >> THEN [a EXCEPT !.io = r.io]
    ELSE [io |-> r.io, picks |-> a.picks \o PicksOf(f, r.resp)]

\* build_picks: an exception of fetch_odds ends the loop
build_picks(io, date_str) ==
    LET Step(a, f) ==
            IF a.io.raised \/ f.status \in SKIP THEN a
            ELSE The({PickStep(a, f, r) : r \in {fetch_odds(a.io, f.fid, f.odds)}})
        logged == [io EXCEPT !.log = Append(io.log, [path |-> "/fixtures",
                                                     params |-> << <<"date", date_str>> >>,
                                                     ok |-> TRUE])]
    IN  FoldLeft(Step, [io |-> logged, picks |-> << >>], up_fixtures)

\* make_tickets after random.shuffle(picks) left the picks in the order
\* shuffled
make_tickets(shuffled) ==
    LET Step(a, p) ==
            IF a.stop \/ Len(a.tickets_text) >= MAX_TICKETS THEN [a EXCEPT !.stop = TRUE]
            ELSE IF p.odd < MIN_SINGLE_ODD THEN a
            ELSE IF RatGE(RatMul(a.cur_total, p.odd), TARGET_TOTAL_ODDS)
                 THEN [a EXCEPT !.tickets_text = Append(a.tickets_text, Append(a.cur, p)),
                                !.cur = << >>, !.cur_total = RatOne]
            ELSE [a EXCEPT !.cur = Append(a.cur, p),
                           !.cur_total = RatMul(a.cur_total, p.odd)]
        r == FoldLeft(Step, [tickets_text |-> << >>, cur |-> << >>, cur_total |-> RatOne,
                             stop |-> FALSE], shuffled)
    IN  IF r.cur # << >> /\ Len(r.tickets_text) < MAX_TICKETS
        THEN Append(r.tickets_text, r.cur)
        ELSE r.tickets_text

\* picks = build_picks(date_str)
PicksReturned(r) ==
    /\ r_log' = r.io.log
    /\ picks' = IF r.io.raised THEN << >> ELSE r.picks
    /\ pc' = IF r.io.raised THEN "tips_raised" ELSE "tips_picks"

BuildPicks(date_str) ==
    /\ pc = "tips_start"
    /\ \E r \in {build_picks(IoNow, date_str)} : PicksReturned(r)
    /\ UNCHANGED <<up_fixtures, up_date, http_cache, odds_by_date_cache, t1, t2, tickets,
                   tickets_text>>
    /\ UNCHANGED <<normVars, retryVars, cacheVars, extVars>>

\* tickets = make_tickets(picks): random.shuffle leaves any permutation
MakeTickets ==
    /\ pc = "tips_picks"
    /\ \E perm \in Permutations(1..Len(picks)) :
          /\ picks' = [i \in 1..Len(picks) |-> picks[perm[i]]]
          /\ tickets_text' = make_tickets(picks')
    /\ pc' = "tips_done"
    /\ UNCHANGED <<up_fixtures, up_date, http_cache, odds_by_date_cache, r_log, t1, t2,
                   tickets>>
    /\ UNCHANGED <<normVars, retryVars, cacheVars, extVars>>

RunNext ==
    \/ \E d \in RunDates : AssembleT1(d) \/ AssembleT2(d) \/ BuildPicks(d)
    \/ Emit
    \/ MakeTickets

----------------------------------------------------------------------------
(* SpecNorm: the odds parser fed one upstream item at a time.              *)

\* how many items are fed in one behaviour
MaxFeeds == 3

\* raw (market name, value) pairs the upstream sends in the bets shape: a
\* canonical name, an alias of it, a forbidden name, a first-half name
NormBetQuotes ==
    { <<"Match Winner", "Home">>, <<"1X2", "1">>,
      <<"Asian Handicap", "Home">>, <<"First Half Goals", "Over 0.5">> }

\* and in the markets shape
NormMarketQuotes == { <<"Match Winner", "Home">>, <<"Asian Handicap", "Home">> }

\* raw odds: three prices of the same quote, and a non-positive one
NormOdds == {0, 130, 140, 155}

BetsItem(fid, q, o) ==
    [fixture |-> fid,
     bookmakers |-> << [markets |-> << >>,
                        bets |-> << [name |-> q[1],
                                     values |-> << [value |-> q[2], odd |-> o] >>] >>] >>]

MarketsItem(fid, q, o) ==
    [fixture |-> fid,
     bookmakers |-> << [markets |-> << [name |-> q[1],
                                        outcomes |-> << [name |-> q[2], price |-> o] >>] >>,
                        bets |-> << >>] >>]

NormItems ==
    {BetsItem(1, q, o) : q \in NormBetQuotes, o \in NormOdds}
        \cup {MarketsItem(1, q, o) : q \in NormMarketQuotes, o \in NormOdds}

\* the bet names build_picks asks _min_odd_in_bet for
MinBetNames == {"Double Chance", "Match Winner", "1X2"}

\* a set as a sequence, in some fixed order
RECURSIVE SetToSeq(_)
SetToSeq(S) ==
    IF S = {} THEN << >>
    ELSE LET x == CHOOSE y \in S : TRUE IN <<x>> \o SetToSeq(S \ {x})

\* a normalized table presented again as upstream items: per fixture one
\* bookmaker, one bet per market, one value per outcome with its stored price
AsBetsItems(table) ==
    LET ValuesOf(d) == [i \in 1..Len(SetToSeq(DOMAIN d)) |->
                            [value |-> SetToSeq(DOMAIN d)[i], odd |-> d[SetToSeq(DOMAIN d)[i]]]]
        BetsOf(slot) == [i \in 1..Len(SetToSeq(DOMAIN slot)) |->
                            [name |-> SetToSeq(DOMAIN slot)[i],
                             values |-> ValuesOf(slot[SetToSeq(DOMAIN slot)[i]])]]
        fids == SetToSeq(DOMAIN table)
    IN  [i \in 1..Len(fids) |->
            [fixture |-> fids[i],
             bookmakers |-> << [markets |-> << >>, bets |-> BetsOf(table[fids[i]])] >>]]

NormInit ==
    /\ out = << >>
    /\ min_out = [bn \in MinBetNames |-> << >>]
    /\ seen = {}
    /\ renorm = << >>
    /\ nphase = "feeding"

\* the parsers process one more upstream item
Feed(e) ==
    /\ nphase = "feeding"
    /\ Cardinality(seen) < MaxFeeds
    /\ e \notin seen
    /\ out' = CollectItem(out, e)
    /\ min_out' = [bn \in MinBetNames |-> MinOddItem(min_out[bn], e, bn)]
    /\ seen' = seen \cup {e}
    /\ UNCHANGED <<renorm, nphase>>
    /\ UNCHANGED <<retryVars, http_cache, cacheVars, runVars, extVars>>

\* the table built so far is fed back to _collect_odds_table
Reapply ==
    /\ nphase = "feeding"
    /\ renorm' = collect_odds_table(AsBetsItems(out))
    /\ nphase' = "reapplied"
    /\ UNCHANGED <<out, min_out, seen>>
    /\ UNCHANGED <<retryVars, http_cache, cacheVars, runVars, extVars>>

NormNext == (\E e \in NormItems : Feed(e)) \/ Reapply

CacheIdle == http_cache = << >> /\ CacheInit

----------------------------------------------------------------------------
(* Delivery: post_to_telegram (telegram_all_tips_ticket.py) and            *)
(* airtable_insert_batch (all_tips_ticket.py).                             *)

\* how many messages and channels a post_to_telegram call is given at most
MaxMessages == 2

MaxChannels == 2

\* how many records airtable_insert_batch is given at most
MaxRecords == 11

\* range(0, len(records), 10): the records of one request
AIRTABLE_CHUNK == 10

\* what a delivery endpoint answers to one request
DeliveryAnswers == {"ok", "fail"}

NoDelivery ==
    /\ d_prog = "idle"
    /\ d_bot = FALSE
    /\ d_chans = << >>
    /\ d_msgs = << >>
    /\ d_given = << >>
    /\ d_i = 0
    /\ d_j = 0
    /\ d_log = << >>
    /\ d_out = << >>
    /\ d_state = "returned"

\* a call of post_to_telegram(messages, channels) or of
\* airtable_insert_batch(records); messages and channels are numbered
DeliverInit ==
    /\ \/ /\ d_prog = "telegram"
          /\ d_bot \in BOOLEAN
          /\ d_chans \in {[k \in 1..n |-> k] : n \in 0..MaxChannels}
          /\ d_msgs \in {[k \in 1..n |-> k] : n \in 0..MaxMessages}
       \/ /\ d_prog = "airtable"
          /\ d_bot = FALSE
          /\ d_chans = << >>
          /\ d_msgs \in {[k \in 1..n |-> k] : n \in 0..MaxRecords}
    /\ d_given = d_msgs
    /\ d_i = 0
    /\ d_j = 0
    /\ d_log = << >>
    /\ d_out = << >>
    /\ d_state = "called"

\* post_to_telegram: "if not TELE_BOT or not channels: return []", else the
\* loops start
PostStart ==
    /\ d_prog = "telegram"
    /\ d_state = "called"
    /\ IF ~d_bot \/ d_chans = << >> \/ d_msgs = << >>
       THEN d_state' = "returned" /\ UNCHANGED <<d_i, d_j>>
       ELSE d_state' = "sending" /\ d_i' = 1 /\ d_j' = 1
    /\ UNCHANGED <<d_prog, d_bot, d_chans, d_msgs, d_given, d_log, d_out>>
    /\ UNCHANGED exceptDeliver

\* one iteration of "for m in messages: for ch in channels": the send is
\* tried, an exception is caught and logged, and the loops go on
TelegramSend(a) ==
    /\ d_prog = "telegram"
    /\ d_state = "sending"
    /\ d_log' = Append(d_log, [msgs |-> {d_msgs[d_i]}, ch |-> d_chans[d_j], ok |-> a = "ok"])
    /\ d_out' = IF a = "ok" THEN Append(d_out, [msg |-> d_msgs[d_i], ch |-> d_chans[d_j]])
                ELSE d_out
    /\ IF d_j < Len(d_chans) THEN d_j' = d_j + 1 /\ UNCHANGED <<d_i, d_state>>
       ELSE IF d_i < Len(d_msgs) THEN d_i' = d_i + 1 /\ d_j' = 1 /\ UNCHANGED d_state
       ELSE d_state' = "returned" /\ UNCHANGED <<d_i, d_j>>
    /\ UNCHANGED <<d_prog, d_bot, d_chans, d_msgs, d_given>>
    /\ UNCHANGED exceptDeliver

\* airtable_insert_batch: the loop over range(0, len(records), 10) starts
BatchStart ==
    /\ d_prog = "airtable"
    /\ d_state = "called"
    /\ d_state' = IF d_msgs = << >> THEN "returned" ELSE "sending"
    /\ UNCHANGED <<d_prog, d_bot, d_chans, d_msgs, d_given, d_i, d_j, d_log, d_out>>
    /\ UNCHANGED exceptDeliver

\* one iteration: chunk = records[i:i+10] is posted, and r.raise_for_status()
\* raises out of the function when the answer is an error
AirtablePost(a) ==
    /\ d_prog = "airtable"
    /\ d_state = "sending"
    /\ d_log' = Append(d_log, [msgs |-> {d_msgs[k] : k \in (d_i + 1)..MinOf(d_i + AIRTABLE_CHUNK,
                                                                          Len(d_msgs))},
                               ch |-> 0, ok |-> a = "ok"])
    /\ IF a # "ok" THEN d_state' = "raised" /\ UNCHANGED d_i
       ELSE IF d_i + AIRTABLE_CHUNK < Len(d_msgs)
            THEN d_i' = d_i + AIRTABLE_CHUNK /\ UNCHANGED d_state
       ELSE d_state' = "returned" /\ UNCHANGED d_i
    /\ UNCHANGED <<d_prog, d_bot, d_chans, d_msgs, d_given, d_j, d_out>>
    /\ UNCHANGED exceptDeliver

DeliverNext ==
    \/ PostStart
    \/ \E a \in DeliveryAnswers : TelegramSend(a)
    \/ BatchStart
    \/ \E a \in DeliveryAnswers : AirtablePost(a)

----------------------------------------------------------------------------
(* One run of a script, from its import to its exit: the module-level code *)
(* and the "__main__" block of telegram_all_tips_ticket.py, and the        *)
(* module-level code and main() of all_tips_ticket.py.                     *)

\* len(PREFERRED_LEAGUES): the league searches of resolve_allow_ids()
PREFERRED_LEAGUES == 23

\* how many requests the building of the tickets makes at most
MaxBuildCalls == 2

\* the four Airtable settings all_tips_ticket.py reads
AirtableEnv == {"AIRTABLE_API_KEY", "AIRTABLE_BASE_ID", "AIRTABLE_TABLE_ID", "AIRTABLE_FIELD_ID"}

NoScript ==
    /\ c_prog = "none"
    /\ c_env = [api_key |-> FALSE, bot |-> FALSE, chans |-> 0, airtable |-> {}]
    /\ c_pc = "exited"
    /\ c_k = 0
    /\ c_provider = 0
    /\ c_exit = "finished"

\* a script is started in some environment
ConfigInit ==
    /\ \/ /\ c_prog = "telegram"
          /\ c_env \in [api_key : BOOLEAN, bot : BOOLEAN, chans : 0..MaxChannels,
                        airtable : {{}}]
       \/ /\ c_prog = "all_tips"
          /\ c_env \in [api_key : BOOLEAN, bot : {FALSE}, chans : {0},
                        airtable : SUBSET AirtableEnv]
    /\ c_pc = "import"
    /\ c_k = 0
    /\ c_provider = 0
    /\ c_exit = "running"

\* all_tips_ticket.py, module level: sys.exit(1) when the API key or one of
\* the Airtable settings is missing
EnvCheck ==
    /\ c_prog = "all_tips"
    /\ c_pc = "import"
    /\ IF ~c_env.api_key \/ c_env.airtable # AirtableEnv
       THEN c_pc' = "exited" /\ c_exit' = "aborted"
       ELSE c_pc' = "build" /\ UNCHANGED c_exit
    /\ UNCHANGED <<c_prog, c_env, c_k, c_provider>>
    /\ UNCHANGED <<normVars, retryVars, http_cache, cacheVars, runVars, f_client, deliverVars,
                   poolVars, pickVars>>

\* telegram_all_tips_ticket.py, module level: ALLOW_IDS = resolve_allow_ids()
\* makes one _get("/leagues", {"search": name}) per preferred league; _client()
\* raises RuntimeError without an API key, before the request, and an error
\* of the request is not caught either
Resolve(a) ==
    /\ c_prog = "telegram"
    /\ c_pc = "import"
    /\ IF ~c_env.api_key
       THEN c_pc' = "exited" /\ c_exit' = "aborted" /\ UNCHANGED <<c_k, c_provider>>
       ELSE /\ c_provider' = c_provider + 1
            /\ IF a # "ok"
               THEN c_pc' = "exited" /\ c_exit' = "aborted" /\ UNCHANGED c_k
               ELSE IF c_k + 1 < PREFERRED_LEAGUES
               THEN c_k' = c_k + 1 /\ UNCHANGED <<c_pc, c_exit>>
               ELSE c_k' = 0 /\ c_pc' = "build" /\ UNCHANGED c_exit
    /\ UNCHANGED <<c_prog, c_env>>
    /\ UNCHANGED <<normVars, retryVars, http_cache, cacheVars, runVars, f_client, deliverVars,
                   poolVars, pickVars>>

\* one request of build_tickets_and_reasoning() or of run(): an error of the
\* request ends the script
BuildCall(a) ==
    /\ c_pc = "build"
    /\ c_k < MaxBuildCalls
    /\ c_provider' = c_provider + 1
    /\ IF a # "ok"
       THEN c_pc' = "exited" /\ c_exit' = "aborted" /\ UNCHANGED c_k
       ELSE c_k' = c_k + 1 /\ UNCHANGED <<c_pc, c_exit>>
    /\ UNCHANGED <<c_prog, c_env>>
    /\ UNCHANGED <<normVars, retryVars, http_cache, cacheVars, runVars, f_client, deliverVars,
                   poolVars, pickVars>>

\* the building returns n messages after the request for the fixtures and
\* those for the odds: without messages the script ends, with messages it
\* calls post_to_telegram(res["messages"], TELE_CHANS) or
\* airtable_insert_batch(tickets)
BuildDone(n) ==
    /\ c_pc = "build"
    /\ c_k >= 1
    /\ IF n = 0
       THEN c_pc' = "exited" /\ c_exit' = "finished" /\ UNCHANGED deliverVars
       ELSE /\ c_pc' = "deliver"
            /\ UNCHANGED c_exit
            /\ d_prog' = IF c_prog = "telegram" THEN "telegram" ELSE "airtable"
            /\ d_bot' = c_env.bot
            /\ d_chans' = [k \in 1..c_env.chans |-> k]
            /\ d_msgs' = [k \in 1..n |-> k]
            /\ d_given' = [k \in 1..n |-> k]
            /\ d_i' = 0
            /\ d_j' = 0
            /\ d_log' = << >>
            /\ d_out' = << >>
            /\ d_state' = "called"
    /\ UNCHANGED <<c_prog, c_env, c_k, c_provider>>
    /\ UNCHANGED <<normVars, retryVars, http_cache, cacheVars, runVars, f_client, poolVars,
                   pickVars>>

\* the delivery call has ended: the script prints its summary and ends, or
\* ends with the exception airtable_insert_batch raised
Exit ==
    /\ c_pc = "deliver"
    /\ d_state \in {"returned", "raised"}
    /\ c_pc' = "exited"
    /\ c_exit' = IF d_state = "raised" THEN "aborted" ELSE "finished"
    /\ UNCHANGED <<c_prog, c_env, c_k, c_provider>>
    /\ UNCHANGED <<normVars, retryVars, http_cache, cacheVars, runVars, f_client, deliverVars,
                   poolVars, pickVars>>

ConfigNext ==
    \/ EnvCheck
    \/ \E a \in DeliveryAnswers : Resolve(a)
    \/ \E a \in DeliveryAnswers : BuildCall(a)
    \/ \E n \in 0..MaxMessages : BuildDone(n)
    \/ DeliverNext
    \/ Exit

----------------------------------------------------------------------------
(* The composition of a ticket from a candidate pool: the part of          *)
(* assemble_ticket1 and of assemble_ticket2_allow_all after the tiers.     *)

\* how many legs a candidate pool has at most
MaxPool == 7

\* prices of the legs of a pool: within the bands for Ticket 1, below the
\* caps for Ticket 2
T1Odds == {110, 130, 180}

T2Odds == {110, 120, 125}

\* the pool [1.80, 1.70, 1.50, 1.30]
ExampleOdds == <<180, 170, 150, 130>>

\* the pool with the prices given: leg i is the candidate of fixture i
PoolOf(odds) ==
    [i \in 1..Len(odds) |->
        [fid |-> i, market |-> "Double Chance", pick_name |-> "1X", odd |-> odds[i],
         league_id |-> 39]]

PoolsOver(prices) == UNION {{PoolOf(odds) : odds \in [1..n -> prices]} : n \in 0..MaxPool}

NoComposition == [legs |-> << >>, total |-> RatOne, pool |-> << >>]

NoPool ==
    /\ p_prog = "none"
    /\ p_pool = << >>
    /\ p_res = NoComposition
    /\ p_pc = "composed"

\* the tiers of an assembly have left a pool
PoolInit ==
    /\ \/ p_prog = "t1" /\ p_pool \in PoolsOver(T1Odds) \cup {PoolOf(ExampleOdds)}
       \/ p_prog = "t2" /\ p_pool \in PoolsOver(T2Odds)
    /\ p_res = NoComposition
    /\ p_pc = "pool"

\* the assembly at the end of its tiers, no request having failed
AfterTiers(pool) ==
    [io |-> [cache |-> << >>, date_cache |-> << >>, log |-> << >>, raised |-> FALSE],
     pool |-> pool, tiers |-> << >>, fixtures |-> << >>]

Composed(r) ==
    /\ p_res' = [legs |-> r.ticket.legs, total |-> r.ticket.total, pool |-> r.pool]
    /\ p_pc' = "composed"

\* assemble_ticket1 from "pool.sort(...)" to its return
ComposeT1 ==
    /\ p_prog = "t1"
    /\ p_pc = "pool"
    /\ \E r \in {T1Pool(AfterTiers(p_pool))} : Composed(r)
    /\ UNCHANGED <<p_prog, p_pool>>
    /\ UNCHANGED <<normVars, retryVars, http_cache, cacheVars, runVars, f_client, deliverVars,
                   configVars, pickVars>>

\* assemble_ticket2_allow_all from its second "if not pool" to its return
ComposeT2 ==
    /\ p_prog = "t2"
    /\ p_pc = "pool"
    /\ \E r \in {T2Pool(AfterTiers(p_pool))} : Composed(r)
    /\ UNCHANGED <<p_prog, p_pool>>
    /\ UNCHANGED <<normVars, retryVars, http_cache, cacheVars, runVars, f_client, deliverVars,
                   configVars, pickVars>>

PoolNext == ComposeT1 \/ ComposeT2

----------------------------------------------------------------------------
(* Candidate generation for one fixture: _best_from_bands and              *)
(* _best_from_caps on the odds table of the fixture.                       *)

\* the outcomes quoted for the fixture, and the prices they are quoted at
\* (0: not quoted); the prices lie on and around the ends of the rules
BandOutcomes ==
    {[mkt |-> "Double Chance", name |-> "1X"], [mkt |-> "Double Chance", name |-> "X2"],
     [mkt |-> "Match Winner", name |-> "Home"]}

BandPrices == {0, 115, 130, 145, 150, 160, 170, 175}

CapOutcomes ==
    {[mkt |-> "1st Half Goals", name |-> "Over 0.5"],
     [mkt |-> "Home Team Goals", name |-> "Over 0.5"],
     [mkt |-> "Away Team Goals", name |-> "Over 0.5"]}

CapPrices == {0, 120, 125, 130, 135, 136, 140, 141}

\* the odds table {market: {outcome: price}} with the quotes q
OddsMapOf(q) ==
    LET quoted == {o \in DOMAIN q : q[o] # 0} IN
    [m \in {o.mkt : o \in quoted} |->
        [n \in {o.name : o \in {x \in quoted : x.mkt = m}} |-> q[[mkt |-> m, name |-> n]]]]

NoCandidate ==
    /\ k_rules = [kind |-> "none", set |-> << >>]
    /\ k_odds = << >>
    /\ k_pick = NoPick
    /\ k_pc = "picked"

\* a tier looks at the odds table of a fixture
PickInit ==
    /\ \/ /\ k_rules \in {PRIMARY, RELAXED}
          /\ k_odds \in {OddsMapOf(q) : q \in [BandOutcomes -> BandPrices]}
       \/ /\ k_rules \in {HARD_CAPS, RELAX_CAPS}
          /\ k_odds \in {OddsMapOf(q) : q \in [CapOutcomes -> CapPrices]}
    /\ k_pick = NoPick
    /\ k_pc = "odds"

\* pick = _best_from_bands(odds, ...) or _best_from_caps(odds, ...)
Pick ==
    /\ k_pc = "odds"
    /\ k_pick' = BestOf(k_rules, k_odds)
    /\ k_pc' = "picked"
    /\ UNCHANGED <<k_rules, k_odds>>
    /\ UNCHANGED <<normVars, retryVars, http_cache, cacheVars, runVars, f_client, deliverVars,
                   configVars, poolVars>>

PickNext == Pick

\* the parts added to the first four, idle
ExtIdle == NoDelivery /\ f_client = "none" /\ NoScript /\ NoPool /\ NoCandidate

\* each specification starts one part of the program and leaves the others idle
InitNorm == NormInit /\ RetryInit /\ CacheIdle /\ NoRun /\ ExtIdle

InitRetry == RetryInit /\ NormInit /\ CacheIdle /\ NoRun /\ ExtIdle

InitCache == CacheInit /\ http_cache = << >> /\ NormInit /\ RetryInit /\ NoRun /\ ExtIdle

InitRun == RunInit /\ NormInit /\ RetryInit /\ CacheInit /\ ExtIdle

SpecNorm == InitNorm /\ [][NormNext]_vars

SpecRetry == InitRetry /\ [][RetryNext]_vars

SpecCache == InitCache /\ [][CacheNext]_vars

SpecRun == InitRun /\ [][RunNext]_vars

InitDeliver ==
    /\ DeliverInit /\ NormInit /\ RetryInit /\ CacheIdle /\ NoRun
    /\ f_client = "none" /\ NoScript /\ NoPool /\ NoCandidate

\* one of the two fetch clients serves requests: _get of all_tips_ticket.py
\* (one request, with its retries) or _get of telegram_all_tips_ticket.py
\* (a series of requests over its cache)
FetchNext ==
    \/ f_client = "all_tips" /\ RetryNext
    \/ f_client = "telegram" /\ CacheNext

InitFetch ==
    /\ f_client \in {"all_tips", "telegram"}
    /\ RetryInit /\ CacheIdle /\ NormInit /\ NoRun /\ NoDelivery /\ NoScript /\ NoPool
    /\ NoCandidate

InitConfig ==
    /\ ConfigInit /\ NoDelivery /\ NormInit /\ RetryInit /\ CacheIdle /\ NoRun
    /\ f_client = "none" /\ NoPool /\ NoCandidate

InitPool ==
    /\ PoolInit /\ NoDelivery /\ NormInit /\ RetryInit /\ CacheIdle /\ NoRun
    /\ f_client = "none" /\ NoScript /\ NoCandidate

SpecPool == InitPool /\ [][PoolNext]_vars

InitPick ==
    /\ PickInit /\ NoDelivery /\ NormInit /\ RetryInit /\ CacheIdle /\ NoRun
    /\ f_client = "none" /\ NoScript /\ NoPool

SpecPick == InitPick /\ [][PickNext]_vars

SpecConfig == InitConfig /\ [][ConfigNext]_vars

SpecFetch == InitFetch /\ [][FetchNext]_vars

SpecDeliver == InitDeliver /\ [][DeliverNext]_vars

----------------------------------------------------------------------------
(* Claims about the odds parser.                                           *)

\* the (fixture, market, outcome) triples a table holds a price for
StoredTriples(table) ==
    UNION {UNION {{<<f, m, n>> : n \in DOMAIN table[f][m]} : m \in DOMAIN table[f]} :
           f \in DOMAIN table}

\* what each parser makes of one item on its own
SingleTable == [e \in NormItems |-> collect_odds_table(<<e>>)]

SingleMin == [e \in NormItems |-> [bn \in MinBetNames |-> min_odd_in_bet(<<e>>, bn)]]

\* the prices the items seen so far quote for a canonical triple
QuotedPrices(f, m, n) ==
    {SingleTable[e][f][m][n] :
        e \in {x \in seen : <<f, m, n>> \in StoredTriples(SingleTable[x])}}

MinQuotedPrices(bn, label) ==
    {SingleMin[e][bn][label] : e \in {x \in seen : label \in DOMAIN SingleMin[x][bn]}}

CollectKeepsMax ==
    /\ \A q \in StoredTriples(out) : out[q[1]][q[2]][q[3]] = SetMax(QuotedPrices(q[1], q[2], q[3]))
    /\ \A e \in seen : StoredTriples(SingleTable[e]) \subseteq StoredTriples(out)

MinOddKeepsMax ==
    \A bn \in MinBetNames : \A label \in DOMAIN min_out[bn] :
        min_out[bn][label] = SetMax(MinQuotedPrices(bn, label))

MinOddKeepsMin ==
    \A bn \in MinBetNames :
        /\ \A label \in DOMAIN min_out[bn] :
              min_out[bn][label] = SetMin(MinQuotedPrices(bn, label))
        /\ \A e \in seen : DOMAIN SingleMin[e][bn] \subseteq DOMAIN min_out[bn]

RawNames(e) ==
    UNION {{bm.markets[i].name : i \in 1..Len(bm.markets)}
               \cup {bm.bets[i].name : i \in 1..Len(bm.bets)} :
           bm \in {e.bookmakers[j] : j \in 1..Len(e.bookmakers)}}

\* C5: when every market entry processed for a fixture has a forbidden raw
\* name, the fixture's table is empty: no market key and no price.
C5_ForbiddenOnlyYieldsEmpty ==
    (seen # {} /\ \A e \in seen : \A nm \in RawNames(e) : ~is_fulltime_main(nm))
        => \A f \in DOMAIN out : out[f] = << >>

CanonicalLabels ==
    [m \in {"Match Winner", "Double Chance", "Both Teams To Score", "Over/Under",
            "1st Half Goals", "Home Team Goals", "Away Team Goals"} |->
        CASE m = "Match Winner" -> {"Home", "Away"}
          [] m = "Double Chance" -> {"1X", "X2", "12"}
          [] m = "Both Teams To Score" -> {"Yes", "No"}
          [] m = "Over/Under" -> {"Over 1.5", "Under 3.5", "Over 2.5"}
          [] OTHER -> {"Over 0.5"}]

IsCanonical(table) ==
    \A q \in StoredTriples(table) :
        q[2] \in DOMAIN CanonicalLabels /\ q[3] \in CanonicalLabels[q[2]]

\* the (fixture, market, outcome, price) quotes of a table
PricedQuotes(table) ==
    {<<q[1], q[2], q[3], table[q[1]][q[2]][q[3]]>> : q \in StoredTriples(table)}

\* C6: feeding a table of canonical markets and outcomes back to
\* _collect_odds_table yields the same table: every market and outcome is
\* there again under the same name with the same price.
C6_ReapplyIsIdentity ==
    (nphase = "reapplied" /\ IsCanonical(out)) => PricedQuotes(renorm) = PricedQuotes(out)

----------------------------------------------------------------------------
(* Claims about the fetch clients.                                         *)

\* C7: once _get succeeded for a (path, params) request, every later _get of
\* the same request, in any key order, makes no network call and returns the
\* document of the first success; no request has two successful network calls.
C7_CacheServesRepeats ==
    /\ \A r \in DOMAIN t_ok : t_ok[r] <= 1
    /\ t_last.prior =>
          /\ ~t_last.net
          /\ t_last.ok
          /\ t_last.doc = t_first[t_last.req].doc

\* C7 witness: a request that succeeded before is asked again with its keys in
\* another order and is served without a network call.
C7_Witness ==
    /\ t_last.prior
    /\ ~t_last.net
    /\ t_last.params # t_first[t_last.req].params

\* C8: get makes at most RETRY_MAX network calls, returns the first successful
\* response, and when every attempt failed raises the error of the last failed
\* attempt.
C8_RetryThenRaiseLast ==
    /\ Len(g_log) <= RETRY_MAX
    /\ g_result = "returned" =>
          /\ g_log[Len(g_log)] = "200"
          /\ \A k \in 1..(Len(g_log) - 1) : g_log[k] # "200"
    /\ g_result = "raised" =>
          /\ \A k \in 1..Len(g_log) : g_log[k] # "200"
          /\ g_raised = [attempt |-> Len(g_log), kind |-> g_log[Len(g_log)]]

\* C9: a 4xx answer other than 429 ends the request at once: it is the last
\* network call, no backoff sleep follows it, and get has raised.
C9_ClientErrorNotRetried ==
    \A k \in 1..Len(g_log) :
        g_log[k] = "404" =>
            /\ k = Len(g_log)
            /\ g_result = "raised"
            /\ g_trace[Len(g_trace)].ev = "call"

----------------------------------------------------------------------------
(* Claims about one run of build_tickets_and_reasoning or of run.          *)

FidsOf(legs) == {legs[i].fid : i \in 1..Len(legs)}

\* the target a ticket was assembled for
TargetOf(t) == IF t.no = 1 THEN T1_TARGET ELSE MIN_T2_TOTAL

\* C1: every emitted ticket has LEGS_MIN to LEGS_MAX legs and a product of
\* leg prices that reaches its target: 2.0, MIN_T2_TOTAL or TARGET_TOTAL_ODDS.
C1_TicketsMeetTargetAndLegBounds ==
    /\ \A k \in 1..Len(tickets) :
          /\ Len(tickets[k].legs) >= LEGS_MIN
          /\ Len(tickets[k].legs) <= LEGS_MAX
          /\ RatGE(product(tickets[k].legs), TargetOf(tickets[k]))
    /\ \A k \in 1..Len(tickets_text) :
          /\ Len(tickets_text[k]) >= LEGS_MIN
          /\ Len(tickets_text[k]) <= LEGS_MAX
          /\ RatGE(product(tickets_text[k]), TARGET_TOTAL_ODDS)

\* C2: the fixture-id sets of the tickets emitted by one run are pairwise
\* disjoint.
C2_TicketsDisjoint ==
    \A j, k \in 1..Len(tickets) :
        j # k => FidsOf(tickets[j].legs) \cap FidsOf(tickets[k].legs) = {}

\* C3: no two legs of an emitted ticket have the same fixture id.
C3_NoDuplicateFixtureInTicket ==
    \A legs \in {tickets[k].legs : k \in 1..Len(tickets)}
                   \cup {tickets_text[k] : k \in 1..Len(tickets_text)} :
        \A i, j \in 1..Len(legs) : i # j => legs[i].fid # legs[j].fid

\* the odds-by-fixture requests that failed, as positions of the request log
FailedOddsRequests ==
    {k \in 1..Len(r_log) : ~r_log[k].ok /\ r_log[k].params[1][1] = "fixture"}

RequestedOdds(fid) ==
    \E k \in 1..Len(r_log) : r_log[k].params = << <<"fixture", fid>> >>

\* the fixtures after fixture i that the loop scanning i goes on to: in
\* build_picks the later fixtures not skipped, in assemble_ticket1 those of
\* them in the same league group
ScannedAfter(i) ==
    IF pc \in {"tips_start", "tips_picks", "tips_raised", "tips_done"}
    THEN {j \in (i + 1)..Len(up_fixtures) : up_fixtures[j].status \notin SKIP}
    ELSE {j \in (i + 1)..Len(up_fixtures) :
            /\ up_fixtures[j].status \notin SKIP_STATUS
            /\ (up_fixtures[j].league \in ALLOW_IDS) = (up_fixtures[i].league \in ALLOW_IDS)}

\* C10: when the odds request of a fixture fails, the run goes on: it does not
\* end with the error, and the odds of every later fixture of the scan are
\* requested as well.
C10_OddsErrorDoesNotStopRun ==
    \A k \in FailedOddsRequests :
        /\ pc \notin {"raised", "tips_raised"}
        /\ \A j \in ScannedAfter(r_log[k].params[1][2]) : RequestedOdds(j)

----------------------------------------------------------------------------
(* Claims about delivery.                                                  *)

\* the (message, destination) pairs a call has to deliver
DeliveryPairs ==
    IF d_prog = "telegram"
    THEN IF d_bot THEN {<<d_msgs[i], d_chans[j]>> : i \in 1..Len(d_msgs), j \in 1..Len(d_chans)}
         ELSE {}
    ELSE {<<d_msgs[i], 0>> : i \in 1..Len(d_msgs)}

\* how many attempts of the log carried the pair
AttemptsOf(pair) ==
    Cardinality({k \in 1..Len(d_log) : pair[1] \in d_log[k].msgs /\ d_log[k].ch = pair[2]})

\* C11: when a delivery call has ended, every (message, destination) pair was
\* attempted exactly once whichever attempts failed, the responses kept are
\* those of the attempts that succeeded, and the messages are as given.
C11_EveryPairAttemptedOnce ==
    d_state \in {"returned", "raised"} =>
        /\ \A pair \in DeliveryPairs : AttemptsOf(pair) = 1
        /\ Len(d_out) = Cardinality({k \in 1..Len(d_log) : d_log[k].ok /\ d_prog = "telegram"})
        /\ d_msgs = d_given

----------------------------------------------------------------------------
(* Claims about the pacing of the requests to the odds provider.           *)

\* the events a step added to a trace
Added(old, new) == SubSeq(new, Len(old) + 1, Len(new))

\* a wait of at least ms directly followed by the only network call
WaitThenOneCall(added, ms) ==
    /\ Len(added) >= 2
    /\ added[1].ev = "sleep_rate"
    /\ added[1].ms >= ms
    /\ added[2].ev = "call"
    /\ \A k \in 3..Len(added) : added[k].ev # "call"

\* C12: every network call to the odds provider comes directly after a wait of
\* at least the configured delay (QPS_DELAY, or 1/RATE_LIMIT_RPS), the call of
\* each retry attempt included, so that such a wait lies between any two
\* calls; a request served from the cache adds neither a wait nor a call.
C12_DelayBeforeEveryCall ==
    [][/\ g_log' # g_log =>
              WaitThenOneCall(Added(g_trace, g_trace'), 1000 \div RATE_LIMIT_RPS)
       /\ g_log' = g_log => g_trace' = g_trace
       /\ t_count' # t_count =>
              IF CacheKey(t_last'.req[1], t_last'.params) \in DOMAIN http_cache
              THEN t_trace' = t_trace
              ELSE /\ Len(t_trace') = Len(t_trace) + 2
                   /\ WaitThenOneCall(Added(t_trace, t_trace'), QPS_DELAY)
       /\ t_count' = t_count => t_trace' = t_trace]_vars

\* two requests went to the network, each after its wait, and a third was
\* served from the cache
C12_Witness ==
    /\ f_client = "telegram"
    /\ t_count = 3
    /\ ~t_last.net
    /\ Len(t_trace) = 4

----------------------------------------------------------------------------
(* Claims about the configuration.                                         *)

\* a credential or identifier the script needs is missing
ConfigMissing ==
    \/ ~c_env.api_key
    \/ c_prog = "telegram" /\ (~c_env.bot \/ c_env.chans = 0)
    \/ c_prog = "all_tips" /\ c_env.airtable # AirtableEnv

\* C13: with a required credential or identifier missing, the run makes no
\* network call to the odds provider nor to a delivery endpoint, and it
\* ends aborted.
C13_ConfigErrorFatalBeforeNetwork ==
    (c_prog # "none" /\ ConfigMissing) =>
        /\ c_provider = 0
        /\ d_log = << >>
        /\ c_pc = "exited" => c_exit = "aborted"

----------------------------------------------------------------------------
(* Claims about determinism.                                               *)

\* the picks in another order of the shuffle
Reordered(perm) == [i \in 1..Len(picks) |-> picks[perm[i]]]

\* C14: the ticket list a run emits is the one every run on the same date,
\* configuration and upstream responses emits: whatever order the shuffle
\* leaves the same picks in, make_tickets returns the list this run returned.
C14_SameInputsSameTickets ==
    pc = "tips_done" =>
        \A perm \in Permutations(1..Len(picks)) : make_tickets(Reordered(perm)) = tickets_text

----------------------------------------------------------------------------
(* Claims about the tiers of candidate generation.                         *)

\* the tiers were run in their order from the first, each further one on a
\* pool of fewer than LEGS_MIN legs, and the tiers ended before the last one
\* only on a pool of at least LEGS_MIN legs
TiersAsNeeded(t, last) ==
    /\ Len(t.tiers) \in 1..last
    /\ \A k \in 1..Len(t.tiers) : t.tiers[k].tier = k
    /\ \A k \in 2..Len(t.tiers) : t.tiers[k].before < LEGS_MIN
    /\ Len(t.tiers) < last => Len(t.pool) >= LEGS_MIN

\* C15: when assemble_ticket1 or assemble_ticket2_allow_all has returned, its
\* tiers were run in the fixed order, a more permissive tier exactly when the
\* pool after the tier before it had fewer than LEGS_MIN legs (also when that
\* pool was not empty), and none once the pool had LEGS_MIN legs.
C15_TierRunsExactlyWhenPoolShort ==
    /\ pc = "t1" => TiersAsNeeded(t1, 4)
    /\ pc = "t2" => TiersAsNeeded(t2, 2)

----------------------------------------------------------------------------
(* Claims about the composition of a ticket from its pool.                 *)

\* the product of the prices of the legs at the positions ks of a pool
ProductAt(pool, ks) == product(SelectSeq([i \in 1..Len(pool) |-> [i |-> i, odd |-> pool[i].odd]],
                                         LAMBDA x : x.i \in ks))

\* the first n legs of the ascending pool are below the target
GreedyFallsShort(n) ==
    /\ Len(p_res.pool) >= n
    /\ ~RatGE(ProductAt(p_res.pool, 1..n), MIN_T2_TOTAL)

\* the n highest-priced legs of the pool reach the target
HighestReach(n) ==
    /\ Len(p_res.pool) >= n
    /\ RatGE(ProductAt(p_res.pool, (Len(p_res.pool) - n + 1)..Len(p_res.pool)), MIN_T2_TOTAL)

\* C16: when the ascending greedy pass of assemble_ticket2_allow_all has taken
\* LEGS_MAX legs with a total below the target and the LEGS_MAX
\* highest-priced legs of the pool have a product of at least the target,
\* the corrective pass brings the total to the target and a ticket is emitted.
C16_CorrectiveReachesTarget ==
    (p_prog = "t2" /\ p_pc = "composed" /\ GreedyFallsShort(LEGS_MAX) /\ HighestReach(LEGS_MAX)) =>
        /\ p_res.legs # << >>
        /\ RatGE(p_res.total, MIN_T2_TOTAL)

\* the target of the assembly that composes
PoolTarget == IF p_prog = "t1" THEN T1_TARGET ELSE MIN_T2_TOTAL

\* LEGS_MIN legs or more reach the target
StopMet(legs) == Len(legs) >= LEGS_MIN /\ RatGE(product(legs), PoolTarget)

OddsOf(legs) == [i \in 1..Len(legs) |-> legs[i].odd]

\* C17: a composed ticket is a prefix of the ordered pool with at most
\* LEGS_MAX legs; the composition stopped before the end of the pool only with
\* LEGS_MIN legs at the target or with LEGS_MAX legs, and took no leg after
\* LEGS_MIN legs had reached the target; the pool [1.80, 1.70, 1.50, 1.30]
\* gives the two legs 1.80 and 1.70 for the target 2.00.
C17_GreedyStopsAtFirstSufficientPrefix ==
    (p_pc = "composed" /\ p_res.legs # << >>) =>
        /\ p_res.legs = SubSeq(p_res.pool, 1, Len(p_res.legs))
        /\ Len(p_res.legs) <= LEGS_MAX
        /\ p_res.total = product(p_res.legs)
        /\ Len(p_res.legs) < Len(p_res.pool) =>
               StopMet(p_res.legs) \/ Len(p_res.legs) = LEGS_MAX
        /\ \A k \in 1..(Len(p_res.legs) - 1) : ~StopMet(SubSeq(p_res.legs, 1, k))
        /\ (p_prog = "t1" /\ OddsOf(p_res.pool) = ExampleOdds) => OddsOf(p_res.legs) = <<180, 170>>

\* the pool [1.80, 1.70, 1.50, 1.30] was composed into a ticket of two legs
C17_Witness ==
    /\ p_prog = "t1"
    /\ p_pc = "composed"
    /\ OddsOf(p_pool) = ExampleOdds
    /\ Len(p_res.legs) = 2

\* C20: a ticket of assemble_ticket1 whose total reaches the target 2.00 has
\* the fewest legs possible: no set of at least LEGS_MIN legs of the pool,
\* fewer than the ticket has, has a product of at least 2.00.
C20_T1LegCountMinimal ==
    (p_prog = "t1" /\ p_pc = "composed" /\ p_res.legs # << >> /\ RatGE(p_res.total, T1_TARGET)) =>
        \A ks \in SUBSET (1..Len(p_pool)) :
            (Cardinality(ks) >= LEGS_MIN /\ Cardinality(ks) < Len(p_res.legs)) =>
                ~RatGE(ProductAt(p_pool, ks), T1_TARGET)

\* a ticket of more than LEGS_MIN legs reached the target from a pool that
\* holds more legs than the ticket took
C20_Witness ==
    /\ p_prog = "t1"
    /\ p_pc = "composed"
    /\ Len(p_res.legs) > LEGS_MIN
    /\ Len(p_res.legs) < Len(p_pool)
    /\ RatGE(p_res.total, T1_TARGET)

----------------------------------------------------------------------------
(* Claims about the odds-by-date fallback.                                 *)

\* the requests of the odds of a date, as positions of the request log
DateRequests ==
    {k \in 1..Len(r_log) : r_log[k].path = "/odds" /\ r_log[k].params[1][1] = "date"}

\* request k asked the odds of a fixture and was answered without items
AnsweredEmpty(k) ==
    /\ r_log[k].path = "/odds"
    /\ r_log[k].params[1][1] = "fixture"
    /\ r_log[k].ok
    /\ up_fixtures[r_log[k].params[1][2]].odds = "empty"

\* the fixtures that neither their own odds answer nor the feed of the date
\* holds
AbsentFromBoth ==
    {i \in 1..Len(up_fixtures) : up_fixtures[i].odds = "empty" /\ i % 2 = 0}

\* C19: in a run of the assemblies the odds of the date are requested only
\* directly after an odds-by-fixture request that was answered without items,
\* every such answer has the odds of the date requested by the next request
\* at the latest, they are requested at most once in the run, and a fixture
\* that neither source holds gives no candidate and no error.
C19_DateFallbackOnlyOnEmptyAndOnce ==
    pc \in {"t1", "t2", "done", "raised"} =>
        /\ \A k \in DateRequests : k > 1 /\ AnsweredEmpty(k - 1)
        /\ \A k \in 1..Len(r_log) :
               AnsweredEmpty(k) => \E j \in DateRequests : j <= k + 1
        /\ Cardinality(DateRequests) <= 1
        /\ \A i \in AbsentFromBoth :
               /\ \A k \in 1..Len(t1.pool) : t1.pool[k].fid # i
               /\ \A k \in 1..Len(t2.pool) : t2.pool[k].fid # i
        /\ pc = "raised" => \E k \in 1..Len(r_log) : ~r_log[k].ok

\* two fixtures fell back to the odds of the date, one of them in neither
\* source, and the run ended with one request for the odds of the date
C19_Witness ==
    /\ pc = "done"
    /\ Cardinality({r_log[k].params : k \in {j \in 1..Len(r_log) : AnsweredEmpty(j)}}) >= 2
    /\ Cardinality(DateRequests) = 1
    /\ AbsentFromBoth # {}
    /\ \E k \in 1..Len(r_log) : AnsweredEmpty(k) /\ r_log[k].params[1][2] \in AbsentFromBoth

----------------------------------------------------------------------------
(* Claims about candidate generation.                                      *)

\* the quoted outcomes of the odds table that a rule of the set accepts: a
\* band rule with lo <= price <= hi, a cap rule with price <= cap
AcceptedBy(rules, odds_map) ==
    {[mkt |-> rules.set[i].mkt, name |-> rules.set[i].name,
      odd |-> odds_map[rules.set[i].mkt][rules.set[i].name]] :
        i \in {j \in 1..Len(rules.set) :
                 /\ rules.set[j].mkt \in DOMAIN odds_map
                 /\ rules.set[j].name \in DOMAIN odds_map[rules.set[j].mkt]
                 /\ IF rules.kind = "bands"
                    THEN /\ rules.set[j].lo <= odds_map[rules.set[j].mkt][rules.set[j].name]
                         /\ odds_map[rules.set[j].mkt][rules.set[j].name] <= rules.set[j].hi
                    ELSE odds_map[rules.set[j].mkt][rules.set[j].name] <= rules.set[j].cap}}

DoubleChance(q1X, qX2) ==
    OddsMapOf([o \in BandOutcomes |->
                 IF o.name = "1X" THEN q1X ELSE IF o.name = "X2" THEN qX2 ELSE 0])

\* C18: the candidate of a fixture is the highest-priced quoted outcome that
\* a rule of the tier's rule set accepts (ends of a band and the cap
\* included), and none when no rule accepts one; its price is positive; what
\* a primary band accepts the relaxed band accepts; 1X at 1.30 with X2 at
\* 1.60 gives (Double Chance, 1X, 1.30) under the primary bands, and 1X at
\* 1.50 alone gives nothing under the primary and 1X under the relaxed bands.
C18_BestAcceptedOutcome ==
    k_pc = "picked" /\ k_rules.kind # "none" =>
        /\ AcceptedBy(k_rules, k_odds) = {} => k_pick = NoPick
        /\ AcceptedBy(k_rules, k_odds) # {} =>
               /\ k_pick \in AcceptedBy(k_rules, k_odds)
               /\ \A a \in AcceptedBy(k_rules, k_odds) : a.odd <= k_pick.odd
        /\ k_pick # NoPick => k_pick.odd > 0
        /\ k_rules.kind = "bands" => AcceptedBy(PRIMARY, k_odds) \subseteq AcceptedBy(RELAXED, k_odds)
        /\ (k_rules = PRIMARY /\ k_odds = DoubleChance(130, 160)) =>
               k_pick = [mkt |-> "Double Chance", name |-> "1X", odd |-> 130]
        /\ (k_rules = PRIMARY /\ k_odds = DoubleChance(150, 0)) => k_pick = NoPick
        /\ (k_rules = RELAXED /\ k_odds = DoubleChance(150, 0)) =>
               k_pick = [mkt |-> "Double Chance", name |-> "1X", odd |-> 150]

\* the primary bands took 1X at 1.45, the upper end of its band, over a
\* lower-priced accepted outcome, with a third outcome outside its band
C18_Witness ==
    /\ k_pc = "picked"
    /\ k_rules = PRIMARY
    /\ k_pick = [mkt |-> "Double Chance", name |-> "1X", odd |-> 145]
    /\ Cardinality(AcceptedBy(PRIMARY, k_odds)) = 2
    /\ Cardinality(AcceptedBy(RELAXED, k_odds)) = 3

====
